---------------------------- MODULE Spec2Model ----------------------------
(***************************************************************************)
(* Severity Fusion & Calibration Engine of hotspot-prioritizer.            *)
(*                                                                         *)
(* Numbers.  The Python code computes in floats; the model computes the    *)
(* same expressions in exact fixed point.  Ratios in [0,1] (coverage_area, *)
(* dirtiness_score, confidence, risk_score, the parent service's seven     *)
(* features) and the priority multiplier are carried in hundredths, raw    *)
(* model scores in 1/RawScale, math.log in 1/10000 (LnTable).  Every       *)
(* operator says in which unit its result is.                              *)
(***************************************************************************)
EXTENDS Integers, Sequences, FiniteSets, TLC

VARIABLES
    inp,            \* the signal bundle of the scoring request being served
    result,         \* what calculate_severity returned for it (None before)
    call,           \* how the last HybridSeverityScorer call went
    _trained_model, \* trained_model_loader._trained_model (module global)
    _model_path,    \* trained_model_loader._model_path (module global)
    artifacts,      \* the disk: what lies at each model path
    raw_in,         \* argument of a direct calibrate_severity_score call
    calibrated,     \* its return value (None before the call)
    parent_in,      \* body of a garbage-parent /predict request
    parent_model,   \* what garbage_model_loader.get_model() hands to predict
    parent_out,     \* the /predict response (None before)
    report,         \* the backend's reports row (None before creation)
    votes,          \* the votes table: each user's vote on the report
    handlers,       \* each user's vote request in flight
    created,        \* what create_report computed (history)
    child_calls,    \* child-service requests made so far (history)
    last_store,     \* the re-score that last wrote the row (history)
    threads,        \* position of each thread inside load_trained_model
    disk_reads,     \* pickle.load calls made so far (history)
    cache_obj,      \* which pickle.load produced _trained_model (0: none)
    model_file,     \* garbage-parent: what lies at GARBAGE_MODEL_PATH
    loader_model,   \* garbage-parent: GarbageModelLoader._model
    pothole_in,     \* body of a pothole-parent /predict request
    pothole_model,  \* what pothole_model_loader.get_model() hands over
    pothole_out,    \* the pothole-parent /predict response
    overpass,       \* how the Overpass API answers the lookup
    nearby,         \* what query_nearby_locations returned
    location_result, \* what analyze_location_context returned
    signals,        \* the arguments of a prepare_features_for_model call
    prepared,       \* what prepare_features_for_model returned
    app_report,     \* backend/app: the reports row (None before creation)
    upvote_rows,    \* backend/app: the upvotes table for the report
    app_reply,      \* backend/app: the last upvote / unvote call (history)
    case_row,       \* the reports row a citizen verifies or reopens
    verify_reply    \* the last verify / reopen call (history)

vars == <<inp, result, call, _trained_model, _model_path, artifacts,
          raw_in, calibrated, parent_in, parent_model, parent_out,
          report, votes, handlers, created, child_calls, last_store,
          threads, disk_reads, cache_obj, model_file, loader_model,
          pothole_in, pothole_model, pothole_out, overpass, nearby,
          location_result, signals, prepared, app_report, upvote_rows,
          app_reply, case_row, verify_reply>>

scorerVars == <<inp, result, call, _trained_model, _model_path, artifacts>>

calibVars == <<raw_in, calibrated>>

parentVars == <<parent_in, parent_model, parent_out>>

backendVars == <<report, votes, handlers, created, child_calls, last_store>>

threadVars == <<threads, disk_reads, cache_obj>>

serviceVars == <<model_file, loader_model>>

potholeVars == <<pothole_in, pothole_model, pothole_out>>

locationVars == <<overpass, nearby, location_result>>

featureVars == <<signals, prepared>>

\* The variables of the remaining components.
appVars == <<app_report, upvote_rows, app_reply>>

verifyVars == <<case_row, verify_reply>>

otherVars == <<featureVars, appVars, verifyVars>>

\* The variables of the backend, the loader threads, the parent services
\* and the location analyzer: the scoring engine's actions leave them alone.
restVars ==
    <<backendVars, threadVars, serviceVars, potholeVars, locationVars,
      otherVars>>

\* Python's None (and "no call made yet").
None == [tag |-> "None"]

\* ------------------------------------------------------------ bounds

\* Largest object_count a detector reports in the model.
MaxObjectCount == 120

\* Largest upvote_count of a report in the model.
MaxUpvotes == 150

\* Raw model scores are multiples of 1/RawScale.
RawScale == 100

\* Vote requests one user sends in a run.
MaxVoteRequests == 2

\* load_trained_model calls one thread makes in a run.
MaxLoadCalls == 2

\* Elements in one Overpass response.
MaxElements == 2

\* Largest distance the decay is examined at, in tenths of a metre.
MaxDistance == 6000

\* ------------------------------------------------------------ arithmetic

Min(a, b) == IF a <= b THEN a ELSE b

Max(a, b) == IF a >= b THEN a ELSE b

\* Python int(): truncation toward zero of n/d (d > 0).
Trunc(n, d) == IF n >= 0 THEN n \div d ELSE -((-n) \div d)

\* Python round() of n/d (n >= 0, d > 0): to nearest, ties to the even integer.
RoundHalfEven(n, d) ==
    LET q == n \div d
        r == n % d
    IN  IF 2 * r < d THEN q
        ELSE IF 2 * r > d THEN q + 1
        ELSE IF q % 2 = 0 THEN q ELSE q + 1

\* math.log(n) in 1/10000, n in 1..160.
LnTable ==
    <<0, 6931, 10986, 13863, 16094, 17918, 19459, 20794, 21972, 23026,
      23979, 24849, 25649, 26391, 27081, 27726, 28332, 28904, 29444, 29957,
      30445, 30910, 31355, 31781, 32189, 32581, 32958, 33322, 33673, 34012,
      34340, 34657, 34965, 35264, 35553, 35835, 36109, 36376, 36636, 36889,
      37136, 37377, 37612, 37842, 38067, 38286, 38501, 38712, 38918, 39120,
      39318, 39512, 39703, 39890, 40073, 40254, 40431, 40604, 40775, 40943,
      41109, 41271, 41431, 41589, 41744, 41897, 42047, 42195, 42341, 42485,
      42627, 42767, 42905, 43041, 43175, 43307, 43438, 43567, 43694, 43820,
      43944, 44067, 44188, 44308, 44427, 44543, 44659, 44773, 44886, 44998,
      45109, 45218, 45326, 45433, 45539, 45643, 45747, 45850, 45951, 46052,
      46151, 46250, 46347, 46444, 46540, 46634, 46728, 46821, 46913, 47005,
      47095, 47185, 47274, 47362, 47449, 47536, 47622, 47707, 47791, 47875,
      47958, 48040, 48122, 48203, 48283, 48363, 48442, 48520, 48598, 48675,
      48752, 48828, 48903, 48978, 49053, 49127, 49200, 49273, 49345, 49416,
      49488, 49558, 49628, 49698, 49767, 49836, 49904, 49972, 50039, 50106,
      50173, 50239, 50304, 50370, 50434, 50499, 50562, 50626, 50689, 50752>>

math_log(n) == LnTable[n]

\* ------------------------------------------------------------ SeverityScorer

\* SEVERITY_CATEGORIES: (min_score, max_score, category), in list order.
SEVERITY_CATEGORIES ==
    << <<0, 20, "Clean">>, <<21, 40, "Low">>, <<41, 60, "Medium">>,
       <<61, 80, "High">>, <<81, 100, "Extreme">> >>

\* The first range of SEVERITY_CATEGORIES that holds the score, else 'Unknown'.
_get_category(score) ==
    LET hits == {i \in 1..Len(SEVERITY_CATEGORIES) :
                    /\ SEVERITY_CATEGORIES[i][1] <= score
                    /\ score <= SEVERITY_CATEGORIES[i][2]}
    IN  IF hits = {} THEN "Unknown"
        ELSE SEVERITY_CATEGORIES[CHOOSE i \in hits : \A j \in hits : i <= j][3]

\* coverage_score = min(coverage_area * 200, 100); coverage in hundredths.
coverage_score(coverage_area) == Min(coverage_area * 2, 100)

\* count_score in hundredths of a point: 0 for no object, else
\* min(20 + log(n)/log(50) * 80, 100).
count_score(object_count) ==
    IF object_count = 0 THEN 0
    ELSE Min(2000 + (8000 * math_log(object_count)) \div math_log(50), 10000)

\* location_score = clamp((multiplier - 0.9) / 0.6 * 100, 0, 100), in thirds
\* of a point; multiplier in hundredths.
location_score(location_multiplier) ==
    Max(0, Min((location_multiplier - 90) * 5, 300))

\* social_score in hundredths of a point: 0 for no vote, else
\* min(log(upvotes + 1)/log(100) * 100, 100).
social_score(upvote_count) ==
    IF upvote_count = 0 THEN 0
    ELSE Min((10000 * math_log(upvote_count + 1)) \div math_log(100), 10000)

DangerousRisks == {"fire hazard", "toxic chemical", "medical waste"}

\* risk_score in points: +40 overflow, +40 open dump, +30 confirmed NLP risk
\* (+20 more if dangerous), capped at 100.  nlp_risk_score in hundredths.
risk_score(has_overflow, is_open_dump, risk_class, nlp_risk_score) ==
    Min( (IF has_overflow THEN 40 ELSE 0)
       + (IF is_open_dump THEN 40 ELSE 0)
       + (IF risk_class # "none" /\ nlp_risk_score > 60
            THEN 30 + (IF risk_class \in DangerousRisks THEN 20 ELSE 0)
            ELSE 0),
       100)

\* The fields calculate_severity reads, with the defaults of its .get calls
\* and of an absent (falsy) location or text result.
Extract(i) ==
    [object_count    |-> i.object_detection.object_count,
     coverage_area   |-> i.object_detection.coverage_area,
     has_overflow    |-> i.object_detection.has_overflow,
     is_open_dump    |-> i.object_detection.is_open_dump,
     dirtiness_score |-> i.scene_classification.dirtiness_score,
     scene_confidence |-> i.scene_classification.confidence,
     location_multiplier |->
        IF i.location_context = None THEN 100
        ELSE i.location_context.priority_multiplier,
     zone_type |->
        IF i.location_context = None THEN "commercial"
        ELSE i.location_context.zone_type,
     text_boost |->
        IF i.text_analysis = None THEN 0 ELSE i.text_analysis.severity_boost,
     urgency_level |->
        IF i.text_analysis = None THEN "low" ELSE i.text_analysis.urgency_level,
     risk_class |->
        IF i.text_analysis = None THEN "none" ELSE i.text_analysis.risk_class,
     nlp_risk_score |->
        IF i.text_analysis = None THEN 0 ELSE i.text_analysis.risk_score,
     upvote_count |-> i.upvote_count]

\* image_score * 4000: 0.375 coverage + 0.375 scene + 0.25 count.
image_score(f) ==
    1500 * coverage_score(f.coverage_area) + 1500 * f.dirtiness_score
    + 10 * count_score(f.object_count)

\* base_severity * 3000: 0.40 image + 0.25 location + 0.20 text + 0.10 social
\* + 0.05 risk, with text_score = text_boost / 30 * 100.
base_severity(f) ==
    450 * coverage_score(f.coverage_area) + 450 * f.dirtiness_score
    + 3 * count_score(f.object_count)
    + 250 * location_score(f.location_multiplier)
    + 2000 * f.text_boost
    + 3 * social_score(f.upvote_count)
    + 150 * risk_score(f.has_overflow, f.is_open_dump, f.risk_class,
                       f.nlp_risk_score)

\* The unit of raw_severity: one point is SeverityUnit.
SeverityUnit == 3000 * 100 * 10

\* severity_score before rounding, in 1/SeverityUnit: base times the location
\* multiplier, plus the urgency boost, times 1.1 for an open dump in a
\* sensitive place.
raw_severity(f) ==
    LET amplified == base_severity(f) * f.location_multiplier
        boosted == amplified
                   + (IF f.urgency_level = "critical" THEN 15 * 300000
                      ELSE IF f.urgency_level = "high" THEN 10 * 300000
                      ELSE 0)
    IN  IF f.is_open_dump /\ f.location_multiplier > 120
        THEN boosted * 11 ELSE boosted * 10

\* The variant of final_score that forgets the cap.
final_score_uncapped(sev) == RoundHalfEven(sev, SeverityUnit)

\* severity_score = min(round(severity_score), 100).
final_score(sev) == Min(RoundHalfEven(sev, SeverityUnit), 100)

\* overall_confidence in thousandths (round(.., 3) is then exact).
overall_confidence(i) ==
    3 * i.scene_classification.confidence
    + (IF i.object_detection.object_count > 0 THEN 240 ELSE 120)
    + (IF i.text_analysis # None THEN 180 ELSE 100)
    + (IF i.location_context # None THEN 180 ELSE 100)

\* One sentence of an explanation.
Part(kind, arg) == [part |-> kind, arg |-> arg]

Opt(cond, parts) == IF cond THEN parts ELSE << >>

\* _generate_explanation: the sentences, in order.
_generate_explanation(score, category, i, f) ==
    LET loc == i.location_context
        txt == i.text_analysis
    IN  <<Part("Severity: " \o category, score)>>
        \o Opt(score >= 80, <<Part("CRITICAL SITUATION DETECTED", 0)>>)
        \o <<Part(IF f.object_count = 0 THEN "No garbage objects detected"
                  ELSE IF f.object_count <= 3 THEN "Minimal garbage detected"
                  ELSE IF f.object_count <= 10 THEN "Moderate amount of garbage"
                  ELSE "Significant garbage accumulation", f.object_count)>>
        \o Opt(f.coverage_area > 10,
               <<Part(IF f.coverage_area > 30 THEN "Garbage covers"
                      ELSE "Moderate spread", f.coverage_area)>>)
        \o Opt(loc # None /\ (loc # None => loc.has_highest_priority_location),
               <<Part("Located near", 0)>>
               \o Opt(f.location_multiplier > 120, <<Part("HIGH PRIORITY", 0)>>))
        \o Opt(txt # None /\ f.urgency_level \in {"critical", "high"},
               <<Part("User description indicates " \o f.urgency_level, 0)>>)
        \o Opt(txt # None /\ (txt # None => txt.has_keywords),
               <<Part("Keywords", 0)>>)
        \o Opt(f.upvote_count > 5,
               <<Part(IF f.upvote_count > 10 THEN "Community validated"
                      ELSE "Multiple reports", f.upvote_count)>>)
        \o Opt(f.is_open_dump, <<Part("OPEN DUMP DETECTED", 0)>>)
        \o Opt(f.risk_class # "none" /\ f.risk_class # "general waste",
               <<Part("Risk Detected: " \o f.risk_class, 0)>>)
        \o Opt(~(f.risk_class # "none" /\ f.risk_class # "general waste")
               /\ f.has_overflow, <<Part("Potential overflow", 0)>>)
        \o Opt(score >= 60,
               <<Part(IF score >= 80 THEN "IMMEDIATE ACTION REQUIRED"
                      ELSE "Prompt action recommended", 0)>>)

\* An exception leaving the function.
Raised(exception) == [raised |-> exception]

\* math.log(object_count) and math.log(upvote_count + 1) raise ValueError
\* (math domain error) on an argument that is not positive.
math_domain_error(f) ==
    \/ f.object_count # 0 /\ f.object_count <= 0
    \/ f.upvote_count # 0 /\ f.upvote_count + 1 <= 0

\* SeverityScorer.calculate_severity: the returned dict.  component_scores are
\* round(.., 1), in tenths of a point.
SeverityScorer_calculate_severity(i) ==
    LET f == Extract(i)
        severity_score == final_score(raw_severity(f))
        severity_category == _get_category(severity_score)
    IN  IF math_domain_error(f) THEN Raised("ValueError") ELSE
        [severity_score |-> severity_score,
         severity_category |-> severity_category,
         confidence |-> overall_confidence(i),
         explanation |->
            _generate_explanation(severity_score, severity_category, i, f),
         component_scores |->
            [image_analysis_score |-> RoundHalfEven(image_score(f), 400),
             location_context_score |->
                RoundHalfEven(10 * location_score(f.location_multiplier), 3),
             text_sentiment_score |-> RoundHalfEven(100 * f.text_boost, 3),
             social_signals_score |->
                RoundHalfEven(social_score(f.upvote_count), 10),
             risk_factors_score |->
                10 * risk_score(f.has_overflow, f.is_open_dump, f.risk_class,
                                f.nlp_risk_score)],
         location_multiplier |-> f.location_multiplier,
         zone_type |-> f.zone_type]

\* ------------------------------------------------------------ calibration

\* The variant of calibrate_severity_score that stretches without the cap.
calibrate_uncapped(score) ==
    IF score < 40 * RawScale THEN Trunc(score, RawScale)
    ELSE IF score < 70 * RawScale THEN Trunc(score * 115, 100 * RawScale)
    ELSE Trunc(score * 125, 100 * RawScale)

\* calibrate_severity_score(score); score in 1/RawScale, the result in points:
\* int(score) below 40, int(score * 1.15) below 70, else
\* min(100, int(score * 1.25)).
calibrate_severity_score(score) ==
    IF score < 40 * RawScale THEN Trunc(score, RawScale)
    ELSE IF score < 70 * RawScale THEN Trunc(score * 115, 100 * RawScale)
    ELSE Min(100, Trunc(score * 125, 100 * RawScale))

\* ------------------------------------------------------------ trained model

\* What unpickling an artifact yields: the attributes predict_with_trained_model
\* asks for.  returns_class: predict returns an integer class; predict_raises:
\* predict (or float() of what it returns) raises.
Model(type, proba, predict, score, class, raises) ==
    [type |-> type, has_predict_proba |-> proba, has_predict |-> predict,
     has_score |-> score, returns_class |-> class, predict_raises |-> raises]

Models ==
    {Model("RandomForestRegressor", FALSE, TRUE, TRUE, FALSE, FALSE),
     Model("BareRegressor", FALSE, TRUE, FALSE, FALSE, FALSE),
     Model("ClassIndexClassifier", TRUE, TRUE, FALSE, TRUE, FALSE),
     Model("FloatLabelClassifier", TRUE, TRUE, FALSE, FALSE, FALSE),
     Model("Transformer", FALSE, FALSE, FALSE, FALSE, FALSE),
     Model("BrokenRegressor", FALSE, TRUE, TRUE, FALSE, TRUE)}

\* A path holds nothing, a file pickle.load rejects, or a pickled model.
Missing == [tag |-> "missing"]

Corrupt == [tag |-> "corrupt"]

\* Paths are wrapped so that a path compares with None as in Python.
DefaultPath == [path |-> "ai_service/models/parent_severity_model.pkl"]

OtherPath == [path |-> "models/other_model.pkl"]

Paths == {DefaultPath, OtherPath}

\* The variant of load_trained_model whose cache test forgets the path.
load_trained_model_any_path(model_path, cache, cache_path, disk) ==
    IF cache # None
    THEN [model |-> cache, cache |-> cache, path |-> cache_path, read |-> FALSE]
    ELSE IF disk[model_path] = Missing \/ disk[model_path] = Corrupt
    THEN [model |-> None, cache |-> cache, path |-> cache_path,
          read |-> disk[model_path] = Corrupt]
    ELSE [model |-> disk[model_path], cache |-> disk[model_path],
          path |-> model_path, read |-> TRUE]

\* load_trained_model(model_path) on globals (cache, cache_path) and the disk:
\* the model it returns and the globals it leaves.
load_trained_model(model_path, cache, cache_path, disk) ==
    IF cache # None /\ cache_path = model_path
    THEN [model |-> cache, cache |-> cache, path |-> cache_path, read |-> FALSE]
    ELSE IF disk[model_path] = Missing
    THEN [model |-> None, cache |-> cache, path |-> cache_path, read |-> FALSE]
    ELSE IF disk[model_path] = Corrupt
    THEN [model |-> None, cache |-> cache, path |-> cache_path, read |-> TRUE]
    ELSE [model |-> disk[model_path], cache |-> disk[model_path],
          path |-> model_path, read |-> TRUE]

\* The variant of zone_type_of that files an absent location context under
\* residential.
zone_type_of_absent_residential(loc) ==
    IF loc = None THEN "residential" ELSE loc.zone_type

\* The zone the one-hot slots are filled from: zone_type of the location
\* context, and none of the slots' names when the context is absent.
zone_type_of(loc) == IF loc = None THEN "none" ELSE loc.zone_type

\* prepare_features_for_model: the 21-feature display dict.  Ratios in
\* hundredths, text_boost_normalized in thirtieths (severity_boost / 30.0),
\* upvote_count_normalized = min(upvote_count / 100.0, 1.0) in hundredths.
full_features_dict(i) ==
    LET od == i.object_detection
        sc == i.scene_classification
        loc == i.location_context
        txt == i.text_analysis
        zone == zone_type_of(loc)
        urgency == IF txt = None THEN "none" ELSE txt.urgency_level
    IN  [object_count |-> od.object_count,
         coverage_area |-> od.coverage_area,
         density |-> od.density,
         has_overflow |-> IF od.has_overflow THEN 100 ELSE 0,
         is_open_dump |-> IF od.is_open_dump THEN 100 ELSE 0,
         bin_detected |-> IF od.bin_detected THEN 100 ELSE 0,
         dirtiness_score |-> sc.dirtiness_score,
         scene_confidence |-> sc.confidence,
         dirty_indicators |-> sc.dirty_indicators,
         clean_indicators |-> sc.clean_indicators,
         location_multiplier |->
            IF loc = None THEN 100 ELSE loc.priority_multiplier,
         zone_educational |-> IF zone = "educational" THEN 100 ELSE 0,
         zone_healthcare |-> IF zone = "healthcare" THEN 100 ELSE 0,
         zone_eco |-> IF zone = "eco" THEN 100 ELSE 0,
         zone_residential |-> IF zone = "residential" THEN 100 ELSE 0,
         sentiment_score |-> IF txt = None THEN 0 ELSE txt.sentiment_score,
         text_boost_normalized |->
            IF txt = None THEN 0 ELSE txt.severity_boost,
         urgency_critical |-> IF urgency = "critical" THEN 100 ELSE 0,
         urgency_high |-> IF urgency = "high" THEN 100 ELSE 0,
         urgency_medium |-> IF urgency = "medium" THEN 100 ELSE 0,
         upvote_count_normalized |-> Min(i.upvote_count, 100)]

\* The 7 model inputs prepare_features_for_model maps the 21 to.
model_features(full) ==
    <<full.object_count, full.coverage_area, full.dirtiness_score,
      full.location_multiplier, full.text_boost_normalized,
      full.upvote_count_normalized,
      Max(full.has_overflow, Max(full.is_open_dump, full.urgency_critical))>>

\* The raw score of a prediction, in 1/RawScale.  prediction is what
\* model.predict(features)[0] gave: a class index for a class classifier,
\* else a float in 1/RawScale.  The regression output is clipped to [0, 100];
\* the classifier's is not.
raw_score_of(model, prediction) ==
    IF model.has_predict_proba
    THEN IF model.returns_class THEN (prediction + 1) * 20 * RawScale
         ELSE prediction
    ELSE Max(0, Min(prediction, 100 * RawScale))

\* predict_with_trained_model, given the model load_trained_model returned,
\* what predict gives and the classifier's max(probabilities) (hundredths):
\* the returned dict, or None.
predict_with_trained_model(i, model, prediction, proba) ==
    IF model = None THEN None
    ELSE IF ~model.has_predict_proba /\ ~model.has_predict THEN None
    ELSE IF model.predict_raises THEN None
    ELSE LET raw_score == raw_score_of(model, prediction)
         IN  [severity_score |-> calibrate_severity_score(raw_score),
              raw_score |-> raw_score,
              confidence |->
                 IF model.has_predict_proba THEN proba
                 ELSE IF model.has_score THEN 80 ELSE 75,
              model_type |-> model.type,
              calibrated |-> TRUE,
              input_features |-> full_features_dict(i)]

\* ------------------------------------------------------------ hybrid scorer

\* The variant of the selector that takes the category of the rule-based
\* result instead of deriving it from the calibrated score.
select_with_rule_category(rule_based_result, trained_prediction) ==
    IF trained_prediction # None
    THEN [severity_score |-> trained_prediction.severity_score,
          severity_category |-> rule_based_result.severity_category,
          confidence |-> trained_prediction.confidence,
          explanation |-> rule_based_result.explanation
             \o <<Part("Predicted by trained " \o trained_prediction.model_type,
                       trained_prediction.severity_score)>>,
          component_scores |-> rule_based_result.component_scores,
          location_multiplier |-> rule_based_result.location_multiplier,
          zone_type |-> rule_based_result.zone_type,
          prediction_method |-> "trained_model",
          model_type |-> trained_prediction.model_type,
          raw_score |-> trained_prediction.raw_score,
          calibrated |-> trained_prediction.calibrated,
          rule_based_score |-> rule_based_result.severity_score,
          model_input_features |-> trained_prediction.input_features]
    ELSE rule_based_result @@ ("prediction_method" :> "rule_based")

\* HybridSeverityScorer.calculate_severity after both predictions are made:
\* the dict it returns.
select(rule_based_result, trained_prediction) ==
    IF trained_prediction # None
    THEN [severity_score |-> trained_prediction.severity_score,
          severity_category |->
             _get_category(trained_prediction.severity_score),
          confidence |-> trained_prediction.confidence,
          explanation |-> rule_based_result.explanation
             \o <<Part("Predicted by trained " \o trained_prediction.model_type,
                       trained_prediction.severity_score)>>,
          component_scores |-> rule_based_result.component_scores,
          location_multiplier |-> rule_based_result.location_multiplier,
          zone_type |-> rule_based_result.zone_type,
          prediction_method |-> "trained_model",
          model_type |-> trained_prediction.model_type,
          raw_score |-> trained_prediction.raw_score,
          calibrated |-> trained_prediction.calibrated,
          rule_based_score |-> rule_based_result.severity_score,
          model_input_features |-> trained_prediction.input_features]
    ELSE rule_based_result @@ ("prediction_method" :> "rule_based")

\* ------------------------------------------------------------ requests

ObjectDetection(count, coverage, overflow, dump) ==
    [object_count |-> count, coverage_area |-> coverage, density |-> 520,
     has_overflow |-> overflow, is_open_dump |-> dump, bin_detected |-> TRUE]

SceneClassification(dirtiness, confidence) ==
    [dirtiness_score |-> dirtiness, confidence |-> confidence,
     dirty_indicators |-> 70, clean_indicators |-> 30]

LocationContext(multiplier, zone, poi) ==
    [priority_multiplier |-> multiplier, zone_type |-> zone,
     has_highest_priority_location |-> poi]

TextAnalysis(boost, urgency, class, score) ==
    [sentiment_score |-> 60, severity_boost |-> boost,
     urgency_level |-> urgency, risk_class |-> class, risk_score |-> score,
     has_keywords |-> boost > 0]

Bundle(od, sc, loc, txt, upvotes) ==
    [object_detection |-> od, scene_classification |-> sc,
     location_context |-> loc, text_analysis |-> txt, upvote_count |-> upvotes]

\* Location results within the declared range of the multiplier, [0.9, 1.5].
LocationContexts ==
    {None,
     LocationContext(90, "commercial", TRUE),
     LocationContext(100, "commercial", FALSE),
     LocationContext(121, "residential", TRUE),
     LocationContext(135, "healthcare", TRUE),
     LocationContext(150, "educational", TRUE)}

UrgencyLevels == {"low", "medium", "high", "critical"}

TextAnalyses ==
    {None} \cup
    {TextAnalysis(boost, urgency, risk[1], risk[2]) :
        boost \in {0, 10, 30}, urgency \in UrgencyLevels,
        risk \in {<<"none", 0>>, <<"fire hazard", 90>>}}

\* The valid signal bundles the rule-based scorer is applied to.
ScorerInputs ==
    {Bundle(ObjectDetection(count, coverage, overflow, dump),
            SceneClassification(dirtiness, 85), loc, txt, upvotes) :
        count \in {0, 1, 12, MaxObjectCount},
        coverage \in {0, 30, 100},
        overflow \in BOOLEAN, dump \in BOOLEAN,
        dirtiness \in {0, 25, 100},
        loc \in LocationContexts, txt \in TextAnalyses,
        upvotes \in {0, 3, MaxUpvotes}}

\* The bundles the hybrid scorer is applied to: the two scenarios of
\* test_end_to_end_prediction, an open dump by a school, and a clean street.
HybridInputs ==
    {Bundle(ObjectDetection(15, 30, FALSE, FALSE), SceneClassification(65, 85),
            LocationContext(150, "educational", FALSE),
            TextAnalysis(10, "high", "none", 0), 3),
     Bundle(ObjectDetection(5, 8, FALSE, FALSE), SceneClassification(25, 75),
            None, None, 0),
     Bundle(ObjectDetection(MaxObjectCount, 100, TRUE, TRUE),
            SceneClassification(100, 90),
            LocationContext(150, "educational", TRUE),
            TextAnalysis(30, "critical", "medical waste", 95), MaxUpvotes),
     Bundle(ObjectDetection(0, 0, FALSE, FALSE), SceneClassification(0, 50),
            LocationContext(90, "commercial", FALSE), None, 0)}

\* What model.predict may give, by model: class indices 0..4, or floats in
\* 1/RawScale (a regressor or a float-label classifier is not bound to [0, 100]).
PredictionsOf(model) ==
    IF model = None THEN {0}
    ELSE IF ~model.has_predict \/ model.predict_raises THEN {0}
    ELSE IF model.has_predict_proba /\ model.returns_class THEN 0..4
    ELSE {-5 * RawScale, 35 * RawScale + RawScale \div 2, 55 * RawScale,
          70 * RawScale, 130 * RawScale}

\* max(probabilities) of a classifier, in hundredths.
ProbasOf(model) ==
    IF model = None THEN {0}
    ELSE IF model.has_predict_proba /\ ~model.predict_raises THEN {55, 90}
    ELSE {0}

ArtifactsAt(path) ==
    IF path = DefaultPath THEN {Missing, Corrupt} \cup Models
    ELSE {Missing, Model("RandomForestRegressor", FALSE, TRUE, TRUE, FALSE, FALSE)}

IdleScorer ==
    /\ inp = None /\ result = None /\ call = None
    /\ _trained_model = None /\ _model_path = None
    /\ artifacts = [p \in Paths |-> Missing]

IdleCalib == raw_in = 0 /\ calibrated = None

IdleParent == parent_in = None /\ parent_model = None /\ parent_out = None

IdleBackend ==
    /\ report = None /\ votes = None /\ handlers = None
    /\ created = None /\ child_calls = 0 /\ last_store = None

IdleThreads == threads = None /\ disk_reads = 0 /\ cache_obj = 0

IdleService == model_file = None /\ loader_model = None

IdlePothole == pothole_in = None /\ pothole_model = None /\ pothole_out = None

IdleLocation ==
    overpass = None /\ nearby = None /\ location_result = None

IdleFeatures == signals = None /\ prepared = None

IdleApp == app_report = None /\ upvote_rows = None /\ app_reply = None

IdleVerify == case_row = None /\ verify_reply = None

IdleOther == IdleFeatures /\ IdleApp /\ IdleVerify

IdleRest ==
    /\ IdleBackend /\ IdleThreads /\ IdleService /\ IdlePothole
    /\ IdleLocation /\ IdleOther

\* ------------------------------------------------------------ rule-based scorer

InitScorer ==
    /\ inp \in ScorerInputs
    /\ result = None /\ call = None
    /\ _trained_model = None /\ _model_path = None
    /\ artifacts = [p \in Paths |-> Missing]
    /\ IdleCalib /\ IdleParent /\ IdleRest

\* A caller applies SeverityScorer.calculate_severity to the request.
RuleBasedCall ==
    /\ result' = SeverityScorer_calculate_severity(inp)
    /\ UNCHANGED <<inp, call, _trained_model, _model_path, artifacts>>
    /\ UNCHANGED <<calibVars, parentVars, restVars>>

NextScorer == RuleBasedCall

SpecScorer == InitScorer /\ [][NextScorer]_vars

\* ------------------------------------------------------------ hybrid scorer

Init ==
    /\ inp \in HybridInputs
    /\ result = None /\ call = None
    /\ _trained_model = None /\ _model_path = None
    /\ artifacts \in [Paths -> {Missing}]
    /\ IdleCalib /\ IdleParent /\ IdleRest

\* The operator installs, replaces, damages or removes the artifact at a path.
ReplaceArtifact ==
    \E path \in Paths : \E a \in ArtifactsAt(path) :
        /\ artifacts' = [artifacts EXCEPT ![path] = a]
        /\ UNCHANGED <<inp, result, call, _trained_model, _model_path>>
        /\ UNCHANGED <<calibVars, parentVars, restVars>>

\* One HybridSeverityScorer.calculate_severity call on the request.
HybridCall ==
    \E use_trained_model \in BOOLEAN, model_path \in Paths :
        LET ld == IF use_trained_model
                  THEN load_trained_model(model_path, _trained_model,
                                          _model_path, artifacts)
                  ELSE [model |-> None, cache |-> _trained_model,
                        path |-> _model_path, read |-> FALSE]
        IN  \E prediction \in PredictionsOf(ld.model),
               proba \in ProbasOf(ld.model) :
                LET trained_prediction ==
                        IF use_trained_model
                        THEN predict_with_trained_model(inp, ld.model,
                                                        prediction, proba)
                        ELSE None
                IN  /\ result' = select(SeverityScorer_calculate_severity(inp),
                                        trained_prediction)
                    /\ _trained_model' = ld.cache
                    /\ _model_path' = ld.path
                    /\ call' = [use_trained_model |-> use_trained_model,
                                model_path |-> model_path,
                                cached |-> /\ _trained_model # None
                                           /\ _model_path = model_path,
                                on_disk |-> artifacts[model_path],
                                model |-> ld.model,
                                trained_prediction |-> trained_prediction]
                    /\ UNCHANGED <<inp, artifacts>>
                    /\ UNCHANGED <<calibVars, parentVars, restVars>>

Next == ReplaceArtifact \/ HybridCall

Spec == Init /\ [][Next]_vars

\* ------------------------------------------------------------ malformed input

\* Bundles some of whose numeric fields lie outside their declared range:
\* negative counts, coverage outside [0, 1], multiplier outside [0.9, 1.5].
MalformedInputs ==
    {Bundle(ObjectDetection(count, coverage, FALSE, dump),
            SceneClassification(dirtiness, 85), loc, None, upvotes) :
        count \in {-5, -1, 0, 12},
        coverage \in {-50, 30, 150},
        dump \in BOOLEAN,
        dirtiness \in {25, 100},
        loc \in {None, LocationContext(-100, "commercial", FALSE),
                 LocationContext(50, "commercial", FALSE),
                 LocationContext(120, "residential", TRUE),
                 LocationContext(200, "educational", TRUE)},
        upvotes \in {-3, -1, 0, 3}}
    \ ScorerInputs

InitMalformed ==
    /\ inp \in MalformedInputs
    /\ result = None /\ call = None
    /\ _trained_model = None /\ _model_path = None
    /\ artifacts = [p \in Paths |-> Missing]
    /\ IdleCalib /\ IdleParent /\ IdleRest

\* A caller applies SeverityScorer.calculate_severity to the malformed bundle.
MalformedCall ==
    /\ result' = SeverityScorer_calculate_severity(inp)
    /\ UNCHANGED <<inp, call, _trained_model, _model_path, artifacts>>
    /\ UNCHANGED <<calibVars, parentVars, restVars>>

NextMalformed == MalformedCall

SpecMalformed == InitMalformed /\ [][NextMalformed]_vars

\* ------------------------------------------------------------ calibrator

InitCalib ==
    /\ raw_in \in 0..(100 * RawScale)
    /\ calibrated = None
    /\ IdleScorer /\ IdleParent /\ IdleRest

\* A caller applies calibrate_severity_score to the raw score.
Calibrate ==
    /\ calibrated' = [score |-> calibrate_severity_score(raw_in)]
    /\ UNCHANGED <<raw_in, scorerVars, parentVars, restVars>>

NextCalib == Calibrate

SpecCalib == InitCalib /\ [][NextCalib]_vars

\* ------------------------------------------------------------ garbage parent

\* What predict finds in `model`, one value per branch of its code: nothing
\* (falsy, the fallback formula the repository's tests exercise), an
\* sklearn-style model whose predict works, a torch module (predict fails,
\* the forward pass works), or a model both calls fail on (HTTP 500).
ParentModels == {"none", "sklearn", "torch", "failing"}

\* Scores a model returns, in hundredths of a point.
ParentModelOutputs == {-1000, 0, 3000, 7000, 10000, 12000}

\* The seven features of SeverityInput, each in hundredths.
SeverityInput(count, coverage, dirtiness, location, text, social, risk) ==
    [object_count |-> count, coverage_area |-> coverage,
     dirtiness_score |-> dirtiness, location_multiplier |-> location,
     text_severity |-> text, social_score |-> social, risk_factor |-> risk]

ParentInputs ==
    {SeverityInput(count, coverage, dirtiness, location, text, social, risk) :
        count \in {0, 1000},
        coverage \in {0, 5, 9, 10, 40, 41, 60, 100},
        dirtiness \in {0, 10, 14, 15, 20, 80, 100},
        location \in {0, 50, 100}, text \in {0, 50, 100},
        social \in {0, 20, 100},
        risk \in {0, 80, 81, 90, 100}}

\* The fallback formula, in hundredths of a point.
fallback_formula(x) ==
    45 * x.coverage_area + 35 * x.dirtiness_score + 10 * x.text_severity
    + 20 * x.location_multiplier + 10 * x.social_score + 20 * x.risk_factor

\* One point of post_prediction is ParentUnit.
ParentUnit == 100 * 100 * 10

\* The variant of post_prediction without the clean override.
post_prediction_no_override(x, severity) ==
    LET boosted == IF x.coverage_area > 40 THEN severity * 125
                   ELSE severity * 100
        floored == IF x.risk_factor > 80 THEN Max(boosted, 85 * 10000)
                   ELSE boosted
    IN  floored * 10

\* The variant of post_prediction without the coverage boost.
post_prediction_no_boost(x, severity) ==
    LET boosted == severity * 100
        floored == IF x.risk_factor > 80 THEN Max(boosted, 85 * 10000)
                   ELSE boosted
    IN  IF x.coverage_area < 10 /\ x.dirtiness_score < 15
        THEN floored ELSE floored * 10

\* The rules predict applies to severity (hundredths), in 1/ParentUnit:
\* x1.25 above 40% coverage, a floor of 85 above 0.8 risk, then x0.1 when
\* coverage < 0.1 and dirtiness < 0.15.
post_prediction(x, severity) ==
    LET boosted == IF x.coverage_area > 40 THEN severity * 125
                   ELSE severity * 100
        floored == IF x.risk_factor > 80 THEN Max(boosted, 85 * 10000)
                   ELSE boosted
    IN  IF x.coverage_area < 10 /\ x.dirtiness_score < 15
        THEN floored ELSE floored * 10

\* severity_level of a clamped score, in 1/ParentUnit.
garbage_severity_level(severity_score) ==
    IF severity_score >= 80 * ParentUnit THEN "critical"
    ELSE IF severity_score >= 60 * ParentUnit THEN "high"
    ELSE IF severity_score >= 40 * ParentUnit THEN "medium"
    ELSE "low"

\* predict: the response to x, with the loader's model and what the model
\* returns.  severity_score = round(.., 2), in hundredths.
predict(x, model, output) ==
    IF model = "failing" THEN [status |-> 500]
    ELSE LET severity == IF model = "none" THEN fallback_formula(x)
                         ELSE output
             clamped == Max(0, Min(100 * ParentUnit, post_prediction(x, severity)))
         IN  [status |-> 200,
              severity_score |-> RoundHalfEven(clamped, ParentUnit \div 100),
              severity_level |-> garbage_severity_level(clamped)]

InitParent ==
    /\ parent_in \in ParentInputs
    /\ parent_model \in ParentModels
    /\ parent_out = None
    /\ IdleScorer /\ IdleCalib /\ IdleRest

\* One POST /predict of the garbage-parent service.
Predict ==
    \E output \in (IF parent_model \in {"sklearn", "torch"}
                   THEN ParentModelOutputs ELSE {0}) :
        /\ parent_out' = predict(parent_in, parent_model, output)
        /\ UNCHANGED <<parent_in, parent_model, scorerVars, calibVars, restVars>>

NextParent == Predict

SpecParent == InitParent /\ [][NextParent]_vars

\* ------------------------------------------------------------ garbage parent: loader

\* What lies at GARBAGE_MODEL_PATH: nothing, the state_dict of a
\* GarbageSeverityModel, a pickled sklearn model, or a file torch.load rejects.
ModelFiles == {"missing", "state_dict", "sklearn_pickle", "corrupt"}

\* The network load_model constructs: GarbageSeverityModel(input_size=5).
GarbageSeverityModel(trained) == [input_size |-> 5, trained |-> trained]

\* GarbageModelLoader.load_model on the file: the _model it leaves and
\* whether it returned (a raise fails the application's startup).
load_model(_model, file) ==
    IF _model # None THEN [_model |-> _model, returned |-> TRUE]
    ELSE IF file = "missing"
    THEN [_model |-> GarbageSeverityModel(FALSE), returned |-> TRUE]
    ELSE IF file = "state_dict"
    THEN [_model |-> GarbageSeverityModel(TRUE), returned |-> TRUE]
    ELSE [_model |-> GarbageSeverityModel(FALSE), returned |-> FALSE]

\* How predict fares with the network get_model returns: an nn.Module is
\* truthy and has no predict method, and its forward pass accepts the seven
\* features only if its first layer has seven inputs.
predict_kind(_model) ==
    IF _model.input_size = 7 THEN "torch" ELSE "failing"

\* The request bodies sent to the started service.
ServiceInputs ==
    {x \in ParentInputs :
        /\ x.coverage_area \in {5, 60} /\ x.dirtiness_score \in {10, 80}
        /\ x.risk_factor \in {0, 90}}

InitService ==
    /\ model_file \in ModelFiles
    /\ loader_model = [_model |-> None, serving |-> FALSE]
    /\ IdleParent /\ IdleScorer /\ IdleCalib
    /\ IdleBackend /\ IdleThreads /\ IdlePothole /\ IdleLocation /\ IdleOther

serviceFrame ==
    <<scorerVars, calibVars, backendVars, threadVars, potholeVars,
      locationVars, otherVars>>

\* startup_event: the model is loaded before the service takes requests.
Startup ==
    /\ loader_model._model = None
    /\ LET l == load_model(loader_model._model, model_file)
       IN  loader_model' = [_model |-> l._model, serving |-> l.returned]
    /\ UNCHANGED <<model_file, parentVars, serviceFrame>>

\* One POST /predict of the started service.
ServicePredict ==
    /\ loader_model.serving
    /\ \E x \in ServiceInputs, output \in ParentModelOutputs :
        /\ parent_in' = x
        /\ parent_out' = predict(x, predict_kind(loader_model._model), output)
    /\ UNCHANGED <<parent_model, serviceVars, serviceFrame>>

NextService == Startup \/ ServicePredict

SpecService == InitService /\ [][NextService]_vars

\* ------------------------------------------------------------ backend: analysis

\* A request that raised in the caller: timeout or connection failure.
Timeout == [tag |-> "timeout"]

\* A JSON body without the expected keys (the service answered with an error).
ErrorBody == [tag |-> "error_body"]

\* dict.get(key, default)
Get(data, key, default) == IF key \in DOMAIN data THEN data[key] ELSE default

\* The dict {}.
EmptyDict == [tag |-> "{}"]

\* json.dumps / json.loads: the column holds the text, the handlers work on
\* the dict; on dicts of strings, ints and floats the pair is exact.
json_dumps(d) == [json |-> d]

json_loads(s) == s.json

\* A trained regressor behind /predict: some fixed function of the seven
\* features (hundredths of a point).
model_output(x) ==
    20 * x.coverage_area + 30 * x.dirtiness_score + 10 * x.risk_factor
    + 25 * x.social_score

\* How a POST to the parent's /predict ends for the caller.
NetOutcomes == {"ok", "timeout", "malformed"}

\* The caller's view of POST /predict with body x.
parent_reply(model, net, x) ==
    IF net = "timeout" THEN Timeout
    ELSE IF net = "malformed" THEN [status |-> 200]
    ELSE predict(x, model, model_output(x))

\* social_score = min(upvotes / 50.0, 1.0), in hundredths.
garbage_social_score(upvotes) == Min(2 * upvotes, 100)

\* What analyze_garbage_report returns from its except branch.
AnalysisFailed ==
    [ai_severity_score |-> 5000, ai_severity_level |-> "medium",
     upvote_score |-> 0, sentiment_meta |-> json_dumps(EmptyDict)]

\* The image could not be read, or a child request raised.
children_raise(sig) ==
    \/ sig.image # "ok"
    \/ Timeout \in {sig.yolo, sig.scene, sig.nlp, sig.loc}

\* Child requests sent before the analysis ends (yolo, scene, nlp, location).
requests_made(sig) ==
    IF sig.image # "ok" THEN 0
    ELSE IF sig.yolo = Timeout THEN 1
    ELSE IF sig.scene = Timeout THEN 2
    ELSE IF sig.nlp = Timeout THEN 3
    ELSE 4

\* The 7-feature body sent to the parent model.
parent_payload(sig, upvotes) ==
    LET visual_risk == IF Get(sig.yolo, "hazardous", 0) > 0 THEN 100 ELSE 0
    IN  SeverityInput(Get(sig.yolo, "object_count", 0),
                      Get(sig.yolo, "coverage_area", 0),
                      Get(sig.scene, "dirtiness_score", 0),
                      Get(sig.loc, "location_score", 0),
                      Get(sig.nlp, "emotion_score", 0),
                      garbage_social_score(upvotes),
                      Max(Get(sig.nlp, "risk_factor", 0), visual_risk))

\* analysis_details, the JSON stored in sentiment_meta.
analysis_details(sig, payload) ==
    [features |-> payload,
     full_21_features |->
        [risk_flags |-> Get(sig.nlp, "found_risks", 0)
                        + (IF Get(sig.yolo, "hazardous", 0) > 0 THEN 1 ELSE 0),
         location_risk |-> payload.location_multiplier,
         social_urgency |-> payload.social_score]]

\* analyze_garbage_report on the children's answers sig, with the parent
\* service holding `model` and its request ending as `net`.
analyze_garbage_report(sig, upvotes, model, net) ==
    IF children_raise(sig) THEN AnalysisFailed
    ELSE LET payload == parent_payload(sig, upvotes)
             parent_data == parent_reply(model, net, payload)
         IN  IF "severity_score" \notin DOMAIN parent_data THEN AnalysisFailed
             ELSE [ai_severity_score |-> parent_data.severity_score,
                   ai_severity_level |-> parent_data.severity_level,
                   upvote_score |-> payload.social_score,
                   sentiment_meta |-> json_dumps(analysis_details(sig, payload))]

\* create_report's mapping of the AI score (hundredths) to the severity and
\* priority enums.
severity_of_ai_score(ai_severity) ==
    IF ai_severity > 7500 THEN "critical"
    ELSE IF ai_severity > 5000 THEN "high"
    ELSE IF ai_severity > 2500 THEN "medium"
    ELSE "low"

\* The columns create_report writes for a waste_management report.
new_report(sig, model, net) ==
    IF sig.image = "no_url"
    THEN [category |-> "waste_management", upvotes |-> 0,
          severity |-> "medium", priority |-> "medium",
          ai_severity_score |-> None,
          ai_severity_level |-> None, upvote_score |-> None,
          sentiment_meta |-> json_dumps(EmptyDict)]
    ELSE LET ai_scores == analyze_garbage_report(sig, 0, model, net)
         IN  [category |-> "waste_management", upvotes |-> 0,
              severity |-> severity_of_ai_score(ai_scores.ai_severity_score),
              priority |-> severity_of_ai_score(ai_scores.ai_severity_score),
              ai_severity_score |-> [score |-> ai_scores.ai_severity_score],
              ai_severity_level |-> [level |-> ai_scores.ai_severity_level],
              upvote_score |-> [score |-> ai_scores.upvote_score],
              sentiment_meta |-> ai_scores.sentiment_meta]

\* ------------------------------------------------------------ backend: votes

Users == {"u1", "u2"}

VoteKinds == {"up", "down"}

\* Children's answers for one report.
Signals(image, yolo, scene, nlp, loc) ==
    [image |-> image, yolo |-> yolo, scene |-> scene, nlp |-> nlp, loc |-> loc]

YoloDirty == [object_count |-> 500, coverage_area |-> 60, hazardous |-> 0]

YoloHazard == [object_count |-> 100, coverage_area |-> 5, hazardous |-> 1]

SceneDirty == [dirtiness_score |-> 80]

TextCalm == [emotion_score |-> 50, risk_factor |-> 0, found_risks |-> 0]

TextToxic == [emotion_score |-> 0, risk_factor |-> 90, found_risks |-> 1]

LocNearSchool == [location_score |-> 70]

\* What the children can answer: all of them, one of them failing in turn
\* (raising, or answering with an error body), no readable image, no image.
SignalSets ==
    {Signals("ok", YoloDirty, SceneDirty, TextCalm, LocNearSchool),
     Signals("ok", YoloHazard, [dirtiness_score |-> 10], TextToxic,
             LocNearSchool),
     Signals("ok", Timeout, SceneDirty, TextCalm, LocNearSchool),
     Signals("ok", YoloDirty, Timeout, TextCalm, LocNearSchool),
     Signals("ok", YoloDirty, SceneDirty, Timeout, LocNearSchool),
     Signals("ok", YoloDirty, SceneDirty, TextCalm, Timeout),
     Signals("ok", YoloDirty, SceneDirty, TextCalm, ErrorBody),
     Signals("ok", ErrorBody, SceneDirty, TextCalm, LocNearSchool),
     Signals("missing", YoloDirty, SceneDirty, TextCalm, LocNearSchool),
     Signals("no_url", YoloDirty, SceneDirty, TextCalm, LocNearSchool)}

\* Rows written by an earlier release: a 7-feature snapshot without the
\* display block 'full_21_features'.
LegacyReports ==
    {[category |-> "waste_management", upvotes |-> 0, severity |-> "high",
      priority |-> "high",
      ai_severity_score |-> [score |-> 5500],
      ai_severity_level |-> [level |-> "medium"],
      upvote_score |-> [score |-> 0],
      sentiment_meta |->
          json_dumps([features |-> SeverityInput(500, 60, 80, 0, 0, 0, 0)])]}

\* A row of the votes table for the report: value 1 is an upvote, -1 a
\* downvote.
Vote(user_id, value) == [user_id |-> user_id, value |-> value]

\* The value of the row select(Vote) finds for the user, 0 when there is
\* none.
existing_vote(rows, u) ==
    IF \E r \in rows : r.user_id = u
    THEN (CHOOSE r \in rows : r.user_id = u).value
    ELSE 0

\* The table after the handler's commit: db.delete of the row it read, the
\* update of that row's value, or db.add of a new row.
committed_votes(rows, u, existing, vote) ==
    IF existing = 0 THEN rows \cup {Vote(u, vote)}
    ELSE IF vote = 0 THEN rows \ {Vote(u, existing)}
    ELSE (rows \ {Vote(u, existing)}) \cup {Vote(u, vote)}

\* Rows recalculate_ai_score has nothing to re-score from: a road_issues
\* report as create_report writes it after analyze_pothole_report (its
\* sentiment_meta holds keywords and sentiment only), and a
\* waste_management row whose sentiment_meta column is NULL.
UnscoredReports ==
    {[category |-> "road_issues", upvotes |-> 0, severity |-> "high",
      priority |-> "high",
      ai_severity_score |-> [score |-> 6200],
      ai_severity_level |-> [level |-> "high"],
      upvote_score |-> [score |-> 0],
      sentiment_meta |->
          json_dumps([keywords |-> <<"deep">>, sentiment |-> "NEGATIVE"])],
     [category |-> "waste_management", upvotes |-> 0, severity |-> "medium",
      priority |-> "medium",
      ai_severity_score |-> None, ai_severity_level |-> None,
      upvote_score |-> None, sentiment_meta |-> None]}

\* The dict recalculate_ai_score parses from the column, {} for NULL.
row_meta(row) ==
    IF row.sentiment_meta = None THEN EmptyDict
    ELSE json_loads(row.sentiment_meta)

IdleHandler == [pc |-> "idle", outcome |-> "none", count |-> 0]

\* The variant of vote_effect whose downvote leaves the counter alone when
\* it replaces an upvote.
vote_effect_keep_count(kind, existing, upvotes_read) ==
    IF kind = "up"
    THEN IF existing = 1
         THEN [vote |-> 0, assigned |-> TRUE,
               upvotes |-> Max(0, upvotes_read - 1)]
         ELSE [vote |-> 1, assigned |-> TRUE, upvotes |-> upvotes_read + 1]
    ELSE IF existing = -1
         THEN [vote |-> 0, assigned |-> FALSE, upvotes |-> upvotes_read]
         ELSE [vote |-> -1, assigned |-> FALSE, upvotes |-> upvotes_read]

\* upvote_report / downvote_report, lines up to the commit: the new value of
\* the user's vote (0: no row) and of report.upvotes, from what was read.
vote_effect(kind, existing, upvotes_read) ==
    IF kind = "up"
    THEN IF existing = 1
         THEN [vote |-> 0, assigned |-> TRUE,
               upvotes |-> Max(0, upvotes_read - 1)]
         ELSE [vote |-> 1, assigned |-> TRUE, upvotes |-> upvotes_read + 1]
    ELSE IF existing = -1
         THEN [vote |-> 0, assigned |-> FALSE, upvotes |-> upvotes_read]
         ELSE IF existing = 1
              THEN [vote |-> -1, assigned |-> TRUE,
                    upvotes |-> Max(0, upvotes_read - 1)]
              ELSE [vote |-> -1, assigned |-> FALSE, upvotes |-> upvotes_read]

\* The variant of rescore_skipped that looks at the category only.
rescore_skipped_category_only(row) ==
    row.category # "waste_management"

\* recalculate_ai_score returns before calling the parent.
rescore_skipped(row) ==
    \/ row.category # "waste_management"
    \/ row.sentiment_meta = None
    \/ json_loads(row.sentiment_meta) = EmptyDict
    \/ "features" \notin DOMAIN json_loads(row.sentiment_meta)

\* The variant of rescore_features that normalises by 100 votes.
rescore_features_per_100(features, upvotes) ==
    [features EXCEPT !.social_score = Min(upvotes, 100)]

\* The variant of rescore_features that also resets the location feature.
rescore_features_reset_location(features, upvotes) ==
    [features EXCEPT !.social_score = garbage_social_score(upvotes),
                     !.location_multiplier = 0]

\* The body recalculate_ai_score posts: the stored features with social_score
\* replaced.
rescore_features(features, upvotes) ==
    [features EXCEPT !.social_score = garbage_social_score(upvotes)]

\* The row once the commit of recalculate_ai_score is reached.
rescored_row(row, h, reply) ==
    [row EXCEPT
        !.ai_severity_score = [score |-> reply.severity_score],
        !.ai_severity_level = [level |-> reply.severity_level],
        !.sentiment_meta = json_dumps(
            [h.meta EXCEPT !.features = h.payload,
                           !.full_21_features.social_urgency =
                               h.payload.social_score])]

\* The variant of apply_rescore in which the score and level reach the row
\* before the snapshot is rewritten.
apply_rescore_score_first(row, h, reply) ==
    IF "severity_score" \notin DOMAIN reply
    THEN [row |-> row, outcome |-> "no score"]
    ELSE IF "full_21_features" \notin DOMAIN h.meta
         THEN [row |-> [row EXCEPT
                    !.ai_severity_score = [score |-> reply.severity_score],
                    !.ai_severity_level = [level |-> reply.severity_level]],
               outcome |-> "incomplete snapshot"]
    ELSE [row |-> rescored_row(row, h, reply), outcome |-> "stored"]

\* recalculate_ai_score after the parent's reply: the row as persisted
\* afterwards, and how the re-score ended.
apply_rescore(row, h, reply) ==
    IF reply = Timeout THEN [row |-> row, outcome |-> "unreachable"]
    ELSE IF reply.status # 200 THEN [row |-> row, outcome |-> "rejected"]
    ELSE IF "severity_score" \notin DOMAIN reply
         THEN [row |-> row, outcome |-> "malformed"]
    ELSE IF "full_21_features" \notin DOMAIN h.meta
         THEN [row |-> row, outcome |-> "incomplete snapshot"]
    ELSE [row |-> rescored_row(row, h, reply), outcome |-> "stored"]

VoterParentModels == {"none", "sklearn", "failing"}

InitVotes ==
    /\ report \in {None} \cup LegacyReports \cup UnscoredReports
    /\ votes = {}
    /\ handlers = [u \in Users |-> IdleHandler]
    /\ created = IF report = None THEN None
                 ELSE [signals |-> None, net |-> None,
                       features |-> Get(row_meta(report), "features", None)]
    /\ child_calls = 0 /\ last_store = None
    /\ parent_model \in VoterParentModels
    /\ parent_in = None /\ parent_out = None
    /\ IdleScorer /\ IdleCalib
    /\ IdleThreads /\ IdleService /\ IdlePothole /\ IdleLocation /\ IdleOther

votesFrame ==
    <<scorerVars, calibVars, parentVars,
      threadVars, serviceVars, potholeVars, locationVars, otherVars>>

\* create_report for a waste_management report.
CreateReport ==
    /\ report = None
    /\ \E sig \in SignalSets, net \in NetOutcomes :
        /\ report' = new_report(sig, parent_model, net)
        /\ created' = [signals |-> sig, net |-> net,
                       features |-> Get(json_loads(report'.sentiment_meta),
                                        "features", None)]
        /\ child_calls' = child_calls + requests_made(sig)
    /\ UNCHANGED <<votes, handlers, last_store, votesFrame>>

\* A vote request of user u starts: the report and the user's vote are read.
VoteRead(u) ==
    /\ report # None
    /\ handlers[u].pc = "idle"
    /\ handlers[u].count < MaxVoteRequests
    /\ \E kind \in VoteKinds :
        handlers' = [handlers EXCEPT ![u] =
            [pc |-> "read", kind |-> kind, existing |-> existing_vote(votes, u),
             upvotes_read |-> report.upvotes, outcome |-> "none",
             count |-> handlers[u].count + 1]]
    /\ UNCHANGED <<report, votes, created, child_calls, last_store, votesFrame>>

\* The vote is committed, the row refreshed, and recalculate_ai_score runs up
\* to its request to the parent.
VoteCommit(u) ==
    /\ handlers[u].pc = "read"
    /\ LET h == handlers[u]
           e == vote_effect(h.kind, h.existing, h.upvotes_read)
           row == IF e.assigned THEN [report EXCEPT !.upvotes = e.upvotes]
                  ELSE report
       IN  /\ report' = row
           /\ votes' = committed_votes(votes, u, h.existing, e.vote)
           /\ handlers' = [handlers EXCEPT ![u] =
                IF rescore_skipped(row)
                THEN [pc |-> "idle", outcome |-> "skipped", count |-> h.count]
                ELSE [pc |-> "awaiting", outcome |-> "none", count |-> h.count,
                      seen |-> row.upvotes,
                      meta |-> row_meta(row),
                      payload |-> rescore_features(
                          Get(row_meta(row), "features", EmptyDict),
                          row.upvotes)]]
    /\ UNCHANGED <<created, child_calls, last_store, votesFrame>>

\* The parent's reply (or the timeout) reaches the handler of u.
ParentReplies(u) ==
    /\ handlers[u].pc = "awaiting"
    /\ \E net \in NetOutcomes :
        LET h == handlers[u]
            a == apply_rescore(report, h,
                               parent_reply(parent_model, net, h.payload))
        IN  /\ report' = a.row
            /\ handlers' = [handlers EXCEPT ![u] =
                    [pc |-> "idle", count |-> h.count, outcome |-> a.outcome]]
            /\ last_store' = IF a.outcome = "stored"
                             THEN [by |-> u, upvotes |-> h.seen]
                             ELSE last_store
    /\ UNCHANGED <<votes, created, child_calls, votesFrame>>

NextVotes ==
    \/ CreateReport
    \/ \E u \in Users : VoteRead(u) \/ VoteCommit(u) \/ ParentReplies(u)

SpecVotes == InitVotes /\ [][NextVotes]_vars

\* A vote request starts while no other is in flight.
SerialVoteRead(u) ==
    /\ \A v \in Users : handlers[v].pc = "idle"
    /\ VoteRead(u)

\* The vote requests processed one at a time.
NextSerial ==
    \/ CreateReport
    \/ \E u \in Users : SerialVoteRead(u) \/ VoteCommit(u) \/ ParentReplies(u)

SpecSerial == InitVotes /\ [][NextSerial]_vars

\* ------------------------------------------------------------ loader threads

Threads == {"t1", "t2"}

IdleThread == [pc |-> "idle", count |-> 0, returned |-> None]

TheRegressor == Model("RandomForestRegressor", FALSE, TRUE, TRUE, FALSE, FALSE)

InitLoader ==
    /\ threads = [t \in Threads |-> IdleThread]
    /\ disk_reads = 0 /\ cache_obj = 0
    /\ _trained_model = None /\ _model_path = None
    /\ artifacts \in {a \in [Paths -> {Missing, Corrupt, TheRegressor}] :
                        a[OtherPath] # Corrupt}
    /\ inp = None /\ result = None /\ call = None
    /\ IdleCalib /\ IdleParent
    /\ IdleBackend /\ IdleService /\ IdlePothole /\ IdleLocation /\ IdleOther

loaderFrame ==
    <<inp, result, call, artifacts, calibVars, parentVars,
      backendVars, serviceVars, potholeVars, locationVars, otherVars>>

\* Thread t calls load_trained_model(model_path) and tests the cache
\* (line 49): a hit returns the global at once.
LoadEnter(t) ==
    /\ threads[t].pc = "idle"
    /\ threads[t].count < MaxLoadCalls
    /\ \E model_path \in Paths :
        threads' = [threads EXCEPT ![t] =
            IF _trained_model # None /\ _model_path = model_path
            THEN [pc |-> "idle", count |-> threads[t].count + 1,
                  returned |-> [obj |-> cache_obj]]
            ELSE [pc |-> "exists", count |-> threads[t].count + 1,
                  returned |-> None, path |-> model_path]]
    /\ UNCHANGED <<_trained_model, _model_path, disk_reads, cache_obj,
                   loaderFrame>>

\* os.path.exists (line 52): a missing file returns None.
LoadExists(t) ==
    /\ threads[t].pc = "exists"
    /\ threads' = [threads EXCEPT ![t] =
            IF artifacts[threads[t].path] = Missing
            THEN [pc |-> "idle", count |-> threads[t].count, returned |-> None]
            ELSE [threads[t] EXCEPT !.pc = "load"]]
    /\ UNCHANGED <<_trained_model, _model_path, disk_reads, cache_obj,
                   loaderFrame>>

\* pickle.load and the assignment to _trained_model (line 60); a file that
\* does not unpickle returns None (lines 65-67).
LoadPickle(t) ==
    /\ threads[t].pc = "load"
    /\ disk_reads' = disk_reads + 1
    /\ IF artifacts[threads[t].path] = Corrupt
       THEN /\ threads' = [threads EXCEPT ![t] =
                    [pc |-> "idle", count |-> threads[t].count,
                     returned |-> None]]
            /\ UNCHANGED <<_trained_model, cache_obj>>
       ELSE /\ _trained_model' = artifacts[threads[t].path]
            /\ cache_obj' = disk_reads'
            /\ threads' = [threads EXCEPT ![t].pc = "loaded"]
    /\ UNCHANGED <<_model_path, loaderFrame>>

\* _model_path = model_path (line 61) and return _trained_model (line 64).
LoadReturn(t) ==
    /\ threads[t].pc = "loaded"
    /\ _model_path' = threads[t].path
    /\ threads' = [threads EXCEPT ![t] =
            [pc |-> "idle", count |-> threads[t].count,
             returned |-> [obj |-> cache_obj]]]
    /\ UNCHANGED <<_trained_model, disk_reads, cache_obj, loaderFrame>>

NextLoader ==
    \E t \in Threads :
        LoadEnter(t) \/ LoadExists(t) \/ LoadPickle(t) \/ LoadReturn(t)

SpecLoader == InitLoader /\ [][NextLoader]_vars

\* ------------------------------------------------------------ pothole parent

\* What predict finds in `model`: None (the weighted formula), a network
\* whose forward pass works, or one it fails on (HTTP 500).
PotholeModels == {"none", "torch", "failing"}

\* Scores a network returns, in hundredths of a point.
PotholeModelOutputs ==
    {-500, 12000} \cup {2500 * k + d : k \in 0..4, d \in {-1, 0, 1, 500, 1500}}

\* random.uniform(-5, 5), in hundredths of a point.
Jitters == {-500, -1, 0, 1, 500}

\* The five features of the pothole SeverityInput, each in hundredths.
PotholeInput(depth, spread, emotion, location, upvote) ==
    [depth_score |-> depth, spread_score |-> spread,
     emotion_score |-> emotion, location_score |-> location,
     upvote_score |-> upvote]

PotholeInputs ==
    {PotholeInput(depth, spread, emotion, location, upvote) :
        depth \in {0, 50, 100}, spread \in {0, 50, 100},
        emotion \in {0, 100}, location \in {0, 100}, upvote \in {0, 100}}

\* The weighted formula times 100, in hundredths of a point.
weighted_score(x) ==
    30 * x.spread_score + 30 * x.depth_score + 20 * x.emotion_score
    + 10 * x.location_score + 10 * x.upvote_score

\* severity_level of a clamped score in hundredths.
pothole_severity_level(severity_score) ==
    IF severity_score > 7500 THEN "critical"
    ELSE IF severity_score > 5000 THEN "high"
    ELSE IF severity_score > 2500 THEN "medium"
    ELSE "low"

\* pothole-parent predict: the response to x, with the loader's model, what
\* the network returns and what random.uniform draws.
pothole_predict(x, model, output, jitter) ==
    IF model = "failing" THEN [status |-> 500]
    ELSE LET severity ==
                 IF model = "none"
                 THEN IF weighted_score(x) > 0 THEN weighted_score(x) + jitter
                      ELSE weighted_score(x)
                 ELSE output
             severity_score == Max(0, Min(10000, severity))
         IN  [status |-> 200, severity_score |-> severity_score,
              severity_level |-> pothole_severity_level(severity_score)]

InitPothole ==
    /\ pothole_in \in PotholeInputs
    /\ pothole_model \in PotholeModels
    /\ pothole_out = None
    /\ IdleScorer /\ IdleCalib /\ IdleParent
    /\ IdleBackend /\ IdleThreads /\ IdleService /\ IdleLocation /\ IdleOther

\* One POST /predict of the pothole-parent service.
PotholePredict ==
    \E output \in (IF pothole_model = "torch" THEN PotholeModelOutputs
                   ELSE {0}),
       jitter \in (IF pothole_model = "none" THEN Jitters ELSE {0}) :
        /\ pothole_out' = pothole_predict(pothole_in, pothole_model,
                                          output, jitter)
        /\ UNCHANGED <<pothole_in, pothole_model, scorerVars, calibVars,
                       parentVars, backendVars, threadVars, serviceVars,
                       locationVars, otherVars>>

NextPothole == PotholePredict

SpecPothole == InitPothole /\ [][NextPothole]_vars

\* ------------------------------------------------------------ location context

\* Distances are in tenths of a metre (distance_m = round(distance, 1)),
\* weights in tenths, the distance factor in 1/FactorUnit and an adjusted
\* priority in 1/PriorityUnit; priority_multiplier is in hundredths.
FactorUnit == 40000

PriorityUnit == 10 * FactorUnit

\* LOCATION_PRIORITIES, in tenths.
LOCATION_PRIORITIES ==
    [school |-> 15, kindergarten |-> 15, college |-> 14, university |-> 14,
     hospital |-> 14, clinic |-> 14, doctors |-> 14, pharmacy |-> 13,
     park |-> 13, nature_reserve |-> 13, playground |-> 13,
     residential |-> 11, apartments |-> 11, commercial |-> 10,
     industrial |-> 9]

\* The amenity / leisure values the Overpass query can return: the listed
\* words, and any value that contains one of them (the ~ filter is an
\* unanchored regular expression), such as driving_school.
PoiTypes ==
    {"school", "kindergarten", "college", "university", "hospital",
     "clinic", "doctors", "pharmacy", "park", "nature_reserve",
     "playground", "driving_school"}

\* The types and distances of the elements in the modelled responses. A way
\* is matched by any of its nodes and measured to its centre, so a distance
\* can exceed the 500 m radius.
ElementTypes == {"school", "hospital", "pharmacy", "park", "driving_school"}

ElementDistances == {0, 1000, 1001, 3000, 4500, 4999, 5000, 5001}

NearbyLocation(type, distance_m) == [type |-> type, distance_m |-> distance_m]

\* An element of the response: a tagged element with coordinates, or one
\* without an amenity / leisure tag (type "").
Elements ==
    {NearbyLocation(t, d) : t \in ElementTypes, d \in ElementDistances}
        \cup {NearbyLocation("", 0)}

\* How the POST to the Overpass API ends: a 200 response with elements, a
\* response with another status, a timeout or connection failure, or a body
\* that is not the expected JSON.
LookupOutcomes == {"ok", "http_error", "timeout", "malformed"}

\* A response with a status other than 200 has a body too; nothing is
\* received on a timeout, and nothing usable in a malformed body.
Responses ==
    {[outcome |-> o, elements |-> e] :
        o \in {"ok", "http_error"},
        e \in UNION {[1..n -> Elements] : n \in 0..MaxElements}}
    \cup {[outcome |-> o, elements |-> <<>>] : o \in {"timeout", "malformed"}}

\* nearby.append for every element with a tag, in response order.
RECURSIVE tagged(_)
tagged(elements) ==
    IF elements = <<>> THEN <<>>
    ELSE IF Head(elements).type = "" THEN tagged(Tail(elements))
    ELSE <<Head(elements)>> \o tagged(Tail(elements))

\* One step of nearby.sort(key=distance_m): insertion that keeps the order
\* of equal keys.
RECURSIVE insert_by_distance(_, _)
insert_by_distance(sorted, loc) ==
    IF sorted = <<>> THEN <<loc>>
    ELSE IF Head(sorted).distance_m <= loc.distance_m
    THEN <<Head(sorted)>> \o insert_by_distance(Tail(sorted), loc)
    ELSE <<loc>> \o sorted

RECURSIVE sort_by_distance(_)
sort_by_distance(locs) ==
    IF locs = <<>> THEN <<>>
    ELSE insert_by_distance(
             sort_by_distance(SubSeq(locs, 1, Len(locs) - 1)),
             locs[Len(locs)])

query_nearby_locations_any_status(response) ==
    LET nearby_sorted == sort_by_distance(tagged(response.elements))
    IN  SubSeq(nearby_sorted, 1, Min(Len(nearby_sorted), 5))

\* query_nearby_locations: the five closest tagged elements, or the empty
\* list when the request fails in any way.
query_nearby_locations(response) ==
    IF response.outcome # "ok" THEN <<>>
    ELSE LET nearby_sorted == sort_by_distance(tagged(response.elements))
         IN  SubSeq(nearby_sorted, 1, Min(Len(nearby_sorted), 5))

\* LOCATION_PRIORITIES.get(loc.type, 1.0)
loc_priority(type) ==
    IF type \in DOMAIN LOCATION_PRIORITIES
    THEN LOCATION_PRIORITIES[type] ELSE 10

distance_factor_far_06(distance_m) ==
    IF distance_m <= 1000 THEN FactorUnit
    ELSE IF distance_m <= 5000
    THEN FactorUnit - 3 * (distance_m - 1000)
    ELSE 24000

\* The distance decay: 1.0 up to 100 m, 1.0 - ((d - 100) / 400) * 0.3 up to
\* 500 m, 0.7 beyond.
distance_factor(distance_m) ==
    IF distance_m <= 1000 THEN FactorUnit
    ELSE IF distance_m <= 5000
    THEN FactorUnit - 3 * (distance_m - 1000)
    ELSE 28000

\* adjusted_priority = 1.0 + (loc_priority - 1.0) * distance_factor
adjusted_priority(type, distance_m) ==
    PriorityUnit + (loc_priority(type) - 10) * distance_factor(distance_m)

\* zone_type set when a location becomes the highest-priority one; a type
\* outside the four lists leaves it unchanged.
zone_of(type, zone_type) ==
    IF type \in {"school", "kindergarten", "college", "university"}
    THEN "educational"
    ELSE IF type \in {"hospital", "clinic", "doctors", "pharmacy"}
    THEN "healthcare"
    ELSE IF type \in {"park", "nature_reserve", "playground"}
    THEN "eco"
    ELSE IF type \in {"residential", "apartments"}
    THEN "residential"
    ELSE zone_type

RECURSIVE scan_nearby_summed(_, _, _)
scan_nearby_summed(locs, i, best) ==
    IF i > Len(locs) THEN best
    ELSE LET loc == locs[i]
             adjusted == adjusted_priority(loc.type, loc.distance_m)
         IN  scan_nearby_summed(locs, i + 1,
                 [max_multiplier |->
                      best.max_multiplier + adjusted - PriorityUnit,
                  highest_priority_loc |-> loc,
                  zone_type |-> zone_of(loc.type, best.zone_type)])

\* The loop over nearby, from position i on.
RECURSIVE scan_nearby(_, _, _)
scan_nearby(locs, i, best) ==
    IF i > Len(locs) THEN best
    ELSE LET loc == locs[i]
             adjusted == adjusted_priority(loc.type, loc.distance_m)
         IN  IF adjusted > best.max_multiplier
             THEN scan_nearby(locs, i + 1,
                      [max_multiplier |-> adjusted,
                       highest_priority_loc |-> loc,
                       zone_type |-> zone_of(loc.type, best.zone_type)])
             ELSE scan_nearby(locs, i + 1, best)

\* round(max_multiplier, 2) on the binary doubles the code computes: the
\* nearest hundredth, and at the four values that are decimal ties the side
\* the double falls on (1.425 is held as 1.4250000000000000888, 1.355 as
\* 1.35499999999999998224, and so on).
round_2(max_multiplier) ==
    CASE max_multiplier = 570000 -> 143
      [] max_multiplier = 542000 -> 135
      [] max_multiplier = 518000 -> 129
      [] max_multiplier = 502000 -> 125
      [] OTHER -> RoundHalfEven(max_multiplier, PriorityUnit \div 100)

\* analyze_location_context on what the lookup returned. The name of a
\* location is carried along unchanged and is left out.
analyze_location_context(locs) ==
    IF locs = <<>>
    THEN [nearby_locations |-> <<>>, priority_multiplier |-> 100,
          zone_type |-> "commercial", highest_priority_location |-> None]
    ELSE LET best == scan_nearby(locs, 1,
                         [max_multiplier |-> PriorityUnit,
                          highest_priority_loc |-> None,
                          zone_type |-> "commercial"])
         IN  [nearby_locations |-> locs,
              priority_multiplier |-> round_2(best.max_multiplier),
              zone_type |-> best.zone_type,
              highest_priority_location |-> best.highest_priority_loc]

InitLocation ==
    /\ overpass \in Responses
    /\ nearby = None /\ location_result = None
    /\ IdleParent /\ IdleScorer /\ IdleCalib
    /\ IdleBackend /\ IdleThreads /\ IdleService /\ IdlePothole
    /\ IdleOther

locationFrame ==
    <<parentVars, scorerVars, calibVars, backendVars, threadVars,
      serviceVars, potholeVars, otherVars>>

\* One call of analyze_location_context(lat, lon): the lookup and the
\* analysis of what it returned.
AnalyzeLocation ==
    /\ location_result = None
    /\ nearby' = query_nearby_locations(overpass)
    /\ location_result' = analyze_location_context(nearby')
    /\ UNCHANGED <<overpass, locationFrame>>

NextLocation == AnalyzeLocation

SpecLocation == InitLocation /\ [][NextLocation]_vars

\* ------------------------------------------------------------ feature preparation

\* Location results a caller may pass, the declared zone types included.
FeatureLocations ==
    LocationContexts
        \cup {LocationContext(130, "eco", TRUE),
              LocationContext(90, "industrial", FALSE)}

\* The argument bundles of the prepare_features_for_model calls.
FeatureInputs ==
    {Bundle(ObjectDetection(12, 30, overflow, dump),
            SceneClassification(65, 85), loc, txt, upvotes) :
        overflow \in BOOLEAN, dump \in BOOLEAN,
        loc \in FeatureLocations,
        txt \in {t \in TextAnalyses : t = None \/ t.severity_boost # 10},
        upvotes \in {3, MaxUpvotes}}

\* The variant of prepare_features_for_model whose risk factor also takes
\* the text analysis' risk_score.
prepare_features_with_risk_score(i) ==
    LET full == full_features_dict(i)
        view == model_features(full)
        risk == IF i.text_analysis = None THEN 0
                ELSE i.text_analysis.risk_score
    IN  [model_features |-> [view EXCEPT ![7] = Max(view[7], risk)],
         full_features_dict |-> full]

\* prepare_features_for_model: the pair it returns, the 7 model inputs and
\* the 21-feature display dict.
prepare_features_for_model(i) ==
    [model_features |-> model_features(full_features_dict(i)),
     full_features_dict |-> full_features_dict(i)]

InitFeatures ==
    /\ signals \in FeatureInputs
    /\ prepared = None
    /\ IdleParent /\ IdleScorer /\ IdleCalib
    /\ IdleBackend /\ IdleThreads /\ IdleService /\ IdlePothole
    /\ IdleLocation /\ IdleApp /\ IdleVerify

featureFrame ==
    <<parentVars, scorerVars, calibVars, backendVars, threadVars,
      serviceVars, potholeVars, locationVars, appVars, verifyVars>>

\* One call of prepare_features_for_model.
PrepareFeatures ==
    /\ prepared = None
    /\ prepared' = prepare_features_for_model(signals)
    /\ UNCHANGED <<signals, featureFrame>>

NextFeatures == PrepareFeatures

SpecFeatures == InitFeatures /\ [][NextFeatures]_vars

\* ------------------------------------------------------------ backend/app: upvotes

AppUsers == {"a1", "a2", "a3", "a4"}

\* A row of the upvotes table for the report.
Upvote(user_id) == [user_id |-> user_id]

\* What a handler leaves: the response, the reports row and the upvotes
\* table.
AppOutcome(status, row, rows) == [status |-> status, row |-> row, rows |-> rows]

\* The variant of upvote_report that counts a repeated upvote.
upvote_report_counts_repeats(row, rows, user_id) ==
    IF row = None THEN AppOutcome(404, row, rows)
    ELSE AppOutcome(200, [row EXCEPT !.upvote_count = @ + 1],
                    rows \cup {Upvote(user_id)})

\* upvote_report of backend/app/routers/reports.py.
upvote_report(row, rows, user_id) ==
    IF row = None THEN AppOutcome(404, row, rows)
    ELSE IF Upvote(user_id) \in rows THEN AppOutcome(200, row, rows)
    ELSE AppOutcome(200, [row EXCEPT !.upvote_count = @ + 1],
                    rows \cup {Upvote(user_id)})

\* unvote_report of backend/app/routers/reports.py.
unvote_report(row, rows, user_id) ==
    IF row = None THEN AppOutcome(404, row, rows)
    ELSE IF Upvote(user_id) \notin rows THEN AppOutcome(200, row, rows)
    ELSE AppOutcome(200,
                    IF row.upvote_count > 0
                    THEN [row EXCEPT !.upvote_count = @ - 1] ELSE row,
                    rows \ {Upvote(user_id)})

InitApp ==
    /\ app_report = None /\ upvote_rows = {} /\ app_reply = None
    /\ IdleParent /\ IdleScorer /\ IdleCalib
    /\ IdleBackend /\ IdleThreads /\ IdleService /\ IdlePothole
    /\ IdleLocation /\ IdleFeatures /\ IdleVerify

appFrame ==
    <<parentVars, scorerVars, calibVars, backendVars, threadVars,
      serviceVars, potholeVars, locationVars, featureVars, verifyVars>>

\* The call's record: who called what, and the row and table it found.
AppCall(op, user_id, status) ==
    [op |-> op, user_id |-> user_id, status |-> status,
     row_before |-> app_report, rows_before |-> upvote_rows]

\* create_report: the row starts with upvote_count 0 (the column default).
AppCreateReport ==
    /\ app_report = None
    /\ app_report' = [upvote_count |-> 0]
    /\ \E user_id \in AppUsers :
        app_reply' = AppCall("create_report", user_id, 200)
    /\ UNCHANGED <<upvote_rows, appFrame>>

\* POST /reports/{report_id}/upvote by one user.
AppUpvote(user_id) ==
    LET out == upvote_report(app_report, upvote_rows, user_id)
    IN  /\ app_report' = out.row
        /\ upvote_rows' = out.rows
        /\ app_reply' = AppCall("upvote", user_id, out.status)
        /\ UNCHANGED appFrame

\* DELETE /reports/{report_id}/unvote by one user.
AppUnvote(user_id) ==
    LET out == unvote_report(app_report, upvote_rows, user_id)
    IN  /\ app_report' = out.row
        /\ upvote_rows' = out.rows
        /\ app_reply' = AppCall("unvote", user_id, out.status)
        /\ UNCHANGED appFrame

NextApp ==
    \/ AppCreateReport
    \/ \E u \in AppUsers : AppUpvote(u) \/ AppUnvote(u)

SpecApp == InitApp /\ [][NextApp]_vars

\* ------------------------------------------------------------ backend: verification

ReportStatus ==
    {"pending", "assigned", "in_progress", "resolved", "closed", "reopened",
     "rejected"}

UserRole == {"citizen", "admin", "officer"}

\* The select found no report with the id.
NoRow == [tag |-> "no row"]

\* The feedback query parameter; None when verify_report is called without.
Feedback(text) == [text |-> text]

Feedbacks == {Feedback("fixed"), Feedback("still broken")}

\* current_user: the report's owner or somebody else, in any role.
Callers == [id : {"owner", "other"}, role : UserRole]

\* The rows a call can find: the report in any status, with the feedback an
\* earlier reopen left or none.
CaseRows ==
    [user_id : {"owner"}, status : ReportStatus,
     citizen_feedback : {None} \cup Feedbacks]

\* What a handler leaves: the HTTP status and the row.
CaseOutcome(status_code, row) == [status_code |-> status_code, row |-> row]

\* The test both handlers make on the caller.
not_authorized(row, current_user) ==
    row.user_id # current_user.id /\ current_user.role # "admin"

\* The variant of verify_report that closes a report in any status.
verify_report_any_status(row, current_user, feedback) ==
    IF row = NoRow THEN CaseOutcome(404, row)
    ELSE IF not_authorized(row, current_user) THEN CaseOutcome(403, row)
    ELSE CaseOutcome(200, [row EXCEPT !.status = "closed",
                                      !.citizen_feedback = feedback])

verify_report(row, current_user, feedback) ==
    IF row = NoRow THEN CaseOutcome(404, row)
    ELSE IF not_authorized(row, current_user) THEN CaseOutcome(403, row)
    ELSE IF row.status # "resolved" THEN CaseOutcome(400, row)
    ELSE CaseOutcome(200, [row EXCEPT !.status = "closed",
                                      !.citizen_feedback = feedback])

reopen_report(row, current_user, feedback) ==
    IF row = NoRow THEN CaseOutcome(404, row)
    ELSE IF not_authorized(row, current_user) THEN CaseOutcome(403, row)
    ELSE CaseOutcome(200, [row EXCEPT !.status = "reopened",
                                      !.citizen_feedback = feedback])

InitVerify ==
    /\ case_row \in {NoRow} \cup CaseRows
    /\ verify_reply = None
    /\ IdleParent /\ IdleScorer /\ IdleCalib
    /\ IdleBackend /\ IdleThreads /\ IdleService /\ IdlePothole
    /\ IdleLocation /\ IdleFeatures /\ IdleApp

verifyFrame ==
    <<parentVars, scorerVars, calibVars, backendVars, threadVars,
      serviceVars, potholeVars, locationVars, featureVars, appVars>>

\* The call's record: who called what with which feedback, the row found
\* and the HTTP status returned.
CaseCall(op, current_user, feedback, status_code) ==
    [op |-> op, current_user |-> current_user, feedback |-> feedback,
     status_code |-> status_code, row_before |-> case_row]

\* POST /reports/{report_id}/verify
VerifyReport ==
    /\ \E current_user \in Callers, feedback \in {None} \cup Feedbacks :
        LET out == verify_report(case_row, current_user, feedback)
        IN  /\ case_row' = out.row
            /\ verify_reply' =
                  CaseCall("verify", current_user, feedback, out.status_code)
    /\ UNCHANGED verifyFrame

\* POST /reports/{report_id}/reopen
ReopenReport ==
    /\ \E current_user \in Callers, feedback \in Feedbacks :
        LET out == reopen_report(case_row, current_user, feedback)
        IN  /\ case_row' = out.row
            /\ verify_reply' =
                  CaseCall("reopen", current_user, feedback, out.status_code)
    /\ UNCHANGED verifyFrame

NextVerify == VerifyReport \/ ReopenReport

SpecVerify == InitVerify /\ [][NextVerify]_vars

\* ------------------------------------------------------------ properties

\* C1: for every valid signal bundle, the severity_score that
\* SeverityScorer.calculate_severity returns is a whole number of points
\* between 0 and 100.
C1_ScoreInRange ==
    result # None => result.severity_score \in 0..100

\* A bundle whose amplified score passes 100 points, scored and capped.
C1_Witness ==
    /\ result # None
    /\ raw_severity(Extract(inp)) > 100 * SeverityUnit
    /\ result.severity_score = 100

\* The ways the claim lists for a call to have no trained prediction, and the
\* plain fact that the predictor returned None.
NoTrainedPrediction ==
    \/ ~call.use_trained_model
    \/ ~call.cached /\ call.on_disk \in {Missing, Corrupt}
    \/ /\ call.model # None
       /\ \/ ~call.model.has_predict /\ ~call.model.has_predict_proba
          \/ call.model.predict_raises
    \/ call.trained_prediction = None

\* C2: whenever no trained-model prediction is available, the hybrid scorer
\* returns the rule-based result of the same bundle, field for field, with
\* prediction_method = 'rule_based' added and nothing else.
C2_FallbackIsRuleBased ==
    (call # None /\ NoTrainedPrediction) =>
        LET rule == SeverityScorer_calculate_severity(inp)
        IN  /\ result.prediction_method = "rule_based"
            /\ DOMAIN result = DOMAIN rule \cup {"prediction_method"}
            /\ \A field \in DOMAIN rule : result[field] = rule[field]

\* A model of another path is cached, the artifact asked for is missing, and
\* the call fell back.
C2_Witness ==
    /\ call # None /\ call.use_trained_model
    /\ _trained_model # None /\ _model_path # call.model_path
    /\ call.on_disk = Missing
    /\ result.prediction_method = "rule_based"

\* The five categories as the claim states them.
CategoryOfScore(score) ==
    CASE score \in 0..20 -> "Clean"
      [] score \in 21..40 -> "Low"
      [] score \in 41..60 -> "Medium"
      [] score \in 61..80 -> "High"
      [] score \in 81..100 -> "Extreme"
      [] OTHER -> "Unknown"

IsPrefix(s, t) == Len(s) <= Len(t) /\ SubSeq(t, 1, Len(s)) = s

\* C3: whenever the predictor returned a prediction, the hybrid result is
\* marked 'trained_model', carries the calibrated model score and the category
\* of that score, and attaches the rule-based component_scores, explanation
\* (the model note follows it), location_multiplier, zone_type and score.
C3_TrainedResult ==
    (call # None /\ call.trained_prediction # None) =>
        LET rule == SeverityScorer_calculate_severity(inp)
            p == call.trained_prediction
        IN  /\ result.prediction_method = "trained_model"
            /\ result.severity_score = calibrate_severity_score(p.raw_score)
            /\ result.severity_category = CategoryOfScore(result.severity_score)
            /\ result.component_scores = rule.component_scores
            /\ IsPrefix(rule.explanation, result.explanation)
            /\ result.location_multiplier = rule.location_multiplier
            /\ result.zone_type = rule.zone_type
            /\ result.rule_based_score = rule.severity_score

\* A trained prediction whose category differs from the rule-based one.
C3_Witness ==
    /\ call # None /\ call.trained_prediction # None
    /\ result.prediction_method = "trained_model"
    /\ result.severity_category
         # SeverityScorer_calculate_severity(inp).severity_category
    /\ result.rule_based_score # result.severity_score

C5_NeverBelowRaw ==
    calibrated # None => calibrated.score * RawScale >= raw_in

\* C6 (as claimed): every score the predictor hands to the calibrator comes
\* back as a whole number of points in [0, 100].
C6_CalibratedInRange ==
    (call # None /\ call.trained_prediction # None) =>
        call.trained_prediction.severity_score \in 0..100

\* C7 (as claimed): each score in 0..100 falls in exactly one of the five
\* ranges, with the categories at the stated bounds, so no score the engine
\* reports, rule-based or calibrated, is categorised 'Unknown'.
C7_NoUnknownCategory ==
    /\ \A score \in 0..100 :
          /\ Cardinality({i \in 1..Len(SEVERITY_CATEGORIES) :
                            /\ SEVERITY_CATEGORIES[i][1] <= score
                            /\ score <= SEVERITY_CATEGORIES[i][2]}) = 1
          /\ _get_category(score) = CategoryOfScore(score)
    /\ result # None => result.severity_category # "Unknown"

HighCoverageCase ==
    /\ parent_out # None /\ parent_model = "none"
    /\ parent_in.coverage_area = 60 /\ parent_in.dirtiness_score = 80
    /\ parent_in.risk_factor = 0

Snapshot == json_loads(report.sentiment_meta)

\* C11: the score and level a vote's re-score stored are those a full
\* analyze_garbage_report run on the report's original child signals with the
\* vote count of that re-score would return; and for every vote count the body
\* a re-score would post from the stored snapshot is the body the full run
\* would post, so the parent answers both alike.
C11_RescoreEqualsFullAnalysis ==
    (last_store # None /\ created.signals # None) =>
        LET full == analyze_garbage_report(created.signals, last_store.upvotes,
                                           parent_model, "ok")
        IN  /\ report.ai_severity_score = [score |-> full.ai_severity_score]
            /\ report.ai_severity_level = [level |-> full.ai_severity_level]
            /\ \A n \in 0..MaxUpvotes :
                 rescore_features(Snapshot.features, n)
                    = parent_payload(created.signals, n)

\* C11 witness: a re-score after the second upvote rewrote the row.
C11_Witness ==
    /\ last_store # None /\ created.signals # None
    /\ last_store.upvotes = 2
    /\ Snapshot.features.social_score = 4
    /\ report.ai_severity_score # [score |-> 5000]

\* The six features a re-score must leave alone.
FrameFeatures ==
    {"object_count", "coverage_area", "dirtiness_score",
     "location_multiplier", "text_severity", "risk_factor"}

\* C12: whatever votes were processed, the six non-social features of the
\* stored snapshot, and of every re-score body in flight, are those written
\* at creation, and no child-service request was made after creation.
C12_OnlySocialChanges ==
    (created # None /\ created.features # None) =>
        /\ \A k \in FrameFeatures : Snapshot.features[k] = created.features[k]
        /\ \A u \in Users : handlers[u].pc = "awaiting" =>
              \A k \in FrameFeatures :
                  handlers[u].payload[k] = created.features[k]
        /\ child_calls = IF created.signals = None THEN 0
                         ELSE requests_made(created.signals)

\* C12 witness: a re-score rewrote the snapshot's social_score.
C12_Witness ==
    /\ created # None /\ created.features # None /\ last_store # None
    /\ Snapshot.features.social_score # created.features.social_score
    /\ child_calls = 4

\* The columns a re-score writes.
Persisted(row) ==
    <<row.ai_severity_score, row.ai_severity_level, row.sentiment_meta>>

C14_NewestCountWins ==
    (report # None /\ \A u \in Users : /\ handlers[u].pc = "idle"
                                       /\ handlers[u].outcome = "stored") =>
        Snapshot.features.social_score = garbage_social_score(report.upvotes)

\* One child request raised, the image was read and the parent answers.
OneChildFailed ==
    /\ created # None /\ created.signals # None
    /\ created.signals.image = "ok"
    /\ Cardinality({c \in {"yolo", "scene", "nlp", "loc"} :
                        created.signals[c] = Timeout}) = 1
    /\ created.net = "ok" /\ parent_model # "failing"

\* C18: when exactly one child request fails during analyze_garbage_report,
\* the report still gets a snapshot and a score computed by the parent model.
C18_OneFailureTolerated ==
    (OneChildFailed /\ last_store = None) =>
        /\ created.features # None
        /\ report.ai_severity_score =
              [score |-> parent_reply(parent_model, "ok",
                                      created.features).severity_score]


\* ------------------------------------------------------------ properties: loader

\* C15: with one valid artifact, at the default path, the file is unpickled
\* at most once however the threads' calls interleave.
C15_LoadedAtMostOnce ==
    (artifacts[DefaultPath] = TheRegressor /\ artifacts[OtherPath] = Missing)
        => disk_reads <= 1


\* ------------------------------------------------------------ properties: levels

\* C16: the level pothole-parent returns for a score is the level
\* garbage-parent returns for the same score.
C16_SameLevelFunction ==
    (pothole_out # None /\ pothole_out.status = 200) =>
        pothole_out.severity_level
            = garbage_severity_level(pothole_out.severity_score
                                     * (ParentUnit \div 100))


\* ------------------------------------------------------------ properties: malformed input

\* The bundle with every numeric field moved to the nearest bound of its
\* declared range.
Clamped(i) ==
    [i EXCEPT
        !.object_detection.object_count = Max(0, @),
        !.object_detection.coverage_area = Max(0, Min(100, @)),
        !.location_context =
            IF @ = None THEN None
            ELSE [@ EXCEPT !.priority_multiplier = Max(90, Min(150, @))],
        !.upvote_count = Max(0, @)]

\* C17: on a bundle with out-of-range numeric fields calculate_severity
\* does not raise and returns the score of the clamped bundle, an integer
\* in 0..100.
C17_ClampsMalformedInput ==
    result # None =>
        /\ "raised" \notin DOMAIN result
        /\ result.severity_score
              = SeverityScorer_calculate_severity(Clamped(inp)).severity_score
        /\ result.severity_score \in 0..100


\* ------------------------------------------------------------ properties: parent loader

\* C19: without a loadable artifact /predict answers 200 with the score and
\* level of the weighted fallback formula and its boost, floor and clean
\* override.
C19_FallbackWithoutArtifact ==
    (model_file # "state_dict" /\ parent_out # None) =>
        parent_out = predict(parent_in, "none", 0)


\* ------------------------------------------------------------ properties: location

\* The decay of one type over every distance up to MaxDistance: the adjusted
\* priority never rises with the distance, the factor is 1.0 up to 100 m and
\* 0.7 from 500 m on, and between them it lies on the straight line from
\* (100 m, 1.0) to (500 m, 0.7), both ends included.
DecayOf(type) ==
    /\ \A d \in 0..(MaxDistance - 1) :
        adjusted_priority(type, d) >= adjusted_priority(type, d + 1)
    /\ \A d \in 0..1000 : distance_factor(d) = FactorUnit
    /\ \A d \in 5000..MaxDistance : 10 * distance_factor(d) = 7 * FactorUnit
    /\ \A d \in 1000..5000 :
        40000 * (FactorUnit - distance_factor(d))
            = 3 * FactorUnit * (d - 1000)

DecayTable == [type \in PoiTypes |-> DecayOf(type)]

MaxAdjusted(locs) ==
    CHOOSE a \in {adjusted_priority(locs[i].type, locs[i].distance_m) :
                      i \in 1..Len(locs)} :
        \A j \in 1..Len(locs) :
            a >= adjusted_priority(locs[j].type, locs[j].distance_m)

Analysed == location_result # None /\ Len(nearby) > 0

NeutralDefault ==
    [nearby_locations |-> <<>>, priority_multiplier |-> 100,
     zone_type |-> "commercial", highest_priority_location |-> None]

\* C22: when the lookup fails (a timeout or connection failure, a status
\* other than 200, or a malformed body), analyze_location_context returns
\* the neutral default: priority_multiplier 1.0, zone_type commercial, no
\* nearby locations and no highest-priority location.
C22_LookupFailureIsNeutral ==
    (location_result # None /\ overpass.outcome # "ok") =>
        /\ nearby = <<>>
        /\ location_result = NeutralDefault

\* A lookup that was answered with an error status and a body listing a
\* school has been analysed.
C22_Witness ==
    /\ location_result # None
    /\ overpass.outcome = "http_error"
    /\ \E i \in 1..Len(overpass.elements) :
        overpass.elements[i].type = "school"
    /\ location_result.priority_multiplier = 100


\* ------------------------------------------------------------ properties: features

\* C23: the 7-value model view is a function of the 21-feature display
\* view: it is object_count, coverage_area, dirtiness_score,
\* location_multiplier, text_boost_normalized, upvote_count_normalized and
\* the largest of has_overflow, is_open_dump and urgency_critical, so every
\* bundle with the same display view gets the same model view.
C23_ModelViewFromDisplayView ==
    prepared # None =>
        LET full == prepared.full_features_dict
            risk_factor ==
                IF \/ full.has_overflow = 100 \/ full.is_open_dump = 100
                   \/ full.urgency_critical = 100
                THEN 100 ELSE 0
        IN  /\ prepared.model_features =
                <<full.object_count, full.coverage_area,
                  full.dirtiness_score, full.location_multiplier,
                  full.text_boost_normalized,
                  full.upvote_count_normalized, risk_factor>>
            /\ \A other \in FeatureInputs :
                prepare_features_for_model(other).full_features_dict = full
                    => prepare_features_for_model(other).model_features
                           = prepared.model_features

\* Features were prepared for a bundle whose text analysis reports a risk,
\* and another bundle without that risk has the same display view.
C23_Witness ==
    /\ prepared # None
    /\ signals.text_analysis # None
    /\ signals.text_analysis.risk_score > 0
    /\ \E other \in FeatureInputs :
        /\ other.text_analysis # None
        /\ other.text_analysis.risk_score = 0
        /\ full_features_dict(other) = prepared.full_features_dict
    /\ prepared.model_features[7] = 0


ZoneSlots(full) ==
    [educational |-> full.zone_educational,
     healthcare |-> full.zone_healthcare,
     eco |-> full.zone_eco,
     residential |-> full.zone_residential]

\* C24: in the display view at most one of zone_educational,
\* zone_healthcare, zone_eco and zone_residential is 1.0: exactly the slot
\* of the zone_type when it is one of those four, and none when the zone is
\* commercial or industrial or the location context is absent, in which
\* case location_multiplier is 1.0.
C24_ZoneOneHot ==
    prepared # None =>
        LET full == prepared.full_features_dict
            slots == ZoneSlots(full)
            loc == signals.location_context
        IN  /\ \A z \in DOMAIN slots : slots[z] \in {0, 100}
            /\ Cardinality({z \in DOMAIN slots : slots[z] = 100}) <= 1
            /\ \A z \in DOMAIN slots :
                slots[z] = 100 <=> (loc # None /\ loc.zone_type = z)
            /\ loc = None => full.location_multiplier = 100

\* Features were prepared without a location context: no slot is set and
\* the multiplier is neutral.
C24_Witness ==
    /\ prepared # None
    /\ signals.location_context = None
    /\ \A z \in DOMAIN ZoneSlots(prepared.full_features_dict) :
        ZoneSlots(prepared.full_features_dict)[z] = 0
    /\ prepared.full_features_dict.location_multiplier = 100


\* ------------------------------------------------------------ properties: counter

\* The rows of the votes table that are upvotes.
UpvoteRows == {r \in votes : r.value = 1}

CounterMatchesRows ==
    report # None =>
        /\ report.upvotes = Cardinality(UpvoteRows)
        /\ report.upvotes >= 0

OneRowPerUser ==
    \A r, s \in votes : r.user_id = s.user_id => r = s

\* C25: with the vote requests processed one at a time, report.upvotes
\* equals the number of vote rows with value 1, there is at most one row
\* per user, and upvotes is never negative.
C25_SerialCounter ==
    report # None => (CounterMatchesRows /\ OneRowPerUser)

\* Both users have voted twice, one has an upvote standing and the other a
\* downvote that replaced their upvote.
C25_Witness ==
    /\ report # None
    /\ \A u \in Users : handlers[u].pc = "idle" /\ handlers[u].count = 2
    /\ Vote("u1", 1) \in votes
    /\ Vote("u2", -1) \in votes
    /\ report.upvotes = 1

\* C26: report.upvotes equals the number of vote rows with value 1 also
\* when the requests of different users interleave.
C26_InterleavedCounter ==
    (report # None /\ \A u \in Users : handlers[u].pc # "read") =>
        CounterMatchesRows


\* ------------------------------------------------------------ properties: app upvotes

\* The last call left the row and the table as it found them.
AppCallChangedNothing ==
    app_report = app_reply.row_before /\ upvote_rows = app_reply.rows_before

\* C27: after any sequence of upvote_report and unvote_report calls the
\* report's upvote_count equals the number of its Upvote rows; an upvote by
\* a user who already upvoted, and an unvote by a user who has not, change
\* neither the rows nor the count.
C27_UpvoteIdempotent ==
    /\ app_report # None =>
        app_report.upvote_count = Cardinality(upvote_rows)
    /\ app_reply # None =>
        /\ (/\ app_reply.op = "upvote"
            /\ Upvote(app_reply.user_id) \in app_reply.rows_before)
                => AppCallChangedNothing
        /\ (/\ app_reply.op = "unvote"
            /\ Upvote(app_reply.user_id) \notin app_reply.rows_before)
                => AppCallChangedNothing

\* A user who had already upvoted has upvoted again, with two rows in the
\* table.
C27_Witness ==
    /\ app_report # None /\ app_reply # None
    /\ app_reply.op = "upvote"
    /\ Upvote(app_reply.user_id) \in app_reply.rows_before
    /\ app_reply.status = 200
    /\ Cardinality(upvote_rows) = 2
    /\ app_report.upvote_count = 2


\* ------------------------------------------------------------ properties: re-score frame

\* The row is not a waste_management report, or its sentiment_meta is empty
\* or holds no 'features' snapshot.
NothingToRescore(row) ==
    \/ row.category # "waste_management"
    \/ row.sentiment_meta = None
    \/ row.sentiment_meta = json_dumps(EmptyDict)
    \/ "features" \notin DOMAIN json_loads(row.sentiment_meta)

\* C28: a vote on a report that is not a waste_management report, or whose
\* sentiment_meta is empty or holds no 'features' snapshot, leaves
\* ai_severity_score, ai_severity_level and sentiment_meta unchanged and
\* makes no request to the parent model.
C28_VoteWithoutSnapshot ==
    [][(report # None /\ NothingToRescore(report)) =>
          /\ Persisted(report') = Persisted(report)
          /\ \A u \in Users : handlers'[u].pc # "awaiting"
          /\ last_store' = last_store]_vars

\* An upvote on a road_issues report was committed: the counter moved and
\* the re-score was skipped.
C28_Witness ==
    /\ report # None
    /\ report.category = "road_issues"
    /\ report.upvotes = 1
    /\ Vote("u1", 1) \in votes
    /\ handlers["u1"].pc = "idle" /\ handlers["u1"].outcome = "skipped"
    /\ report.ai_severity_score = [score |-> 6200]


\* ------------------------------------------------------------ properties: enums

\* C29: once a report has been created with an AI analysis, its severity and
\* priority enums are those create_report's mapping gives for the stored
\* ai_severity_score (> 75 critical, > 50 high, > 25 medium, else low), also
\* after a vote's re-score has changed the score.
C29_EnumsFollowScore ==
    (report # None /\ created # None /\ created.signals # None
        /\ report.ai_severity_score # None) =>
        /\ report.severity = severity_of_ai_score(report.ai_severity_score.score)
        /\ report.priority = severity_of_ai_score(report.ai_severity_score.score)


\* ------------------------------------------------------------ properties: verification

\* C30: verify_report closes the report, storing the feedback, only when
\* the report exists, the caller is its owner or an admin, and its status is
\* resolved; otherwise it answers 404, 403 or 400 in that order of tests and
\* leaves status and citizen_feedback as they were.
C30_VerifyOnlyResolved ==
    (verify_reply # None /\ verify_reply.op = "verify") =>
        LET before == verify_reply.row_before
            caller == verify_reply.current_user
            exists == before # NoRow
            allowed == exists /\ (before.user_id = caller.id
                                  \/ caller.role = "admin")
            resolved == exists /\ before.status = "resolved"
        IN  IF exists /\ allowed /\ resolved
            THEN /\ verify_reply.status_code = 200
                 /\ case_row.status = "closed"
                 /\ case_row.citizen_feedback = verify_reply.feedback
                 /\ case_row.user_id = before.user_id
            ELSE /\ case_row = before
                 /\ verify_reply.status_code =
                        IF ~exists THEN 404
                        ELSE IF ~allowed THEN 403 ELSE 400

\* An admin who is not the owner has verified a resolved report that an
\* earlier reopen had left feedback on.
C30_Witness ==
    /\ verify_reply # None /\ verify_reply.op = "verify"
    /\ verify_reply.current_user = [id |-> "other", role |-> "admin"]
    /\ verify_reply.row_before # NoRow
    /\ verify_reply.row_before.status = "resolved"
    /\ verify_reply.row_before.citizen_feedback = Feedback("still broken")
    /\ verify_reply.status_code = 200
    /\ case_row.status = "closed"
    /\ case_row.citizen_feedback = Feedback("fixed")

=============================================================================
